---- MODULE Spec2Model ----
(***************************************************************************)
(* The Coordinator pipeline (process_user_query) of the multi-agent system *)
(* together with the Memory, Retrieval and Analytical workers.             *)
(*                                                                         *)
(* Text is modelled as a sequence of words (the result of str.split).  The *)
(* string facts the code computes on those words (lower(), strip(), len(), *)
(* isalpha(), substring and whole-word containment) are tabulated below    *)
(* from the literal strings of the sources, for the words of Vocab.        *)
(* Confidences and distances are in hundredths; a mean is kept as the pair *)
(* of its numerator and denominator.                                       *)
(***************************************************************************)
EXTENDS Integers, Sequences, FiniteSets, TLC

(***************************************************************************)
(* String tables.                                                          *)
(***************************************************************************)
Vocab ==
    {"Research", "transformer", "architectures", "and", "summarize", "tradeoffs", "What's", "the", "weather", "in", "Paris?", "find", "ai", "model", "compare", "transformers", "remember", "neural", "networks", "store", "best", "what", "did", "we", "earlier", "get", "information", "restore", "remembered", "costs", "store:", "previous", "finding", "about", "efficiency", "prior", "summary", "mentioning", "their", "forget", "analyze", "effectiveness", "calculate"}

Tokens ==
    {"research", "transformer", "architectures", "and", "summarize", "tradeoffs", "what's", "the", "weather", "in", "paris?", "paris", "find", "ai", "model", "compare", "transformers", "remember", "neural", "networks", "store", "best", "what", "did", "we", "earlier", "get", "information", "restore", "remembered", "costs", "store:", "previous", "finding", "about", "efficiency", "prior", "summary", "mentioning", "their", "forget", "analyze", "effectiveness", "calculate"}

Lower ==
    "Research" :> "research" @@
    "transformer" :> "transformer" @@
    "architectures" :> "architectures" @@
    "and" :> "and" @@
    "summarize" :> "summarize" @@
    "tradeoffs" :> "tradeoffs" @@
    "What's" :> "what's" @@
    "the" :> "the" @@
    "weather" :> "weather" @@
    "in" :> "in" @@
    "Paris?" :> "paris?" @@
    "find" :> "find" @@
    "ai" :> "ai" @@
    "model" :> "model" @@
    "compare" :> "compare" @@
    "transformers" :> "transformers" @@
    "remember" :> "remember" @@
    "neural" :> "neural" @@
    "networks" :> "networks" @@
    "store" :> "store" @@
    "best" :> "best" @@
    "what" :> "what" @@
    "did" :> "did" @@
    "we" :> "we" @@
    "earlier" :> "earlier" @@
    "get" :> "get" @@
    "information" :> "information" @@
    "restore" :> "restore" @@
    "remembered" :> "remembered" @@
    "costs" :> "costs" @@
    "store:" :> "store:" @@
    "previous" :> "previous" @@
    "finding" :> "finding" @@
    "about" :> "about" @@
    "efficiency" :> "efficiency" @@
    "prior" :> "prior" @@
    "summary" :> "summary" @@
    "mentioning" :> "mentioning" @@
    "their" :> "their" @@
    "forget" :> "forget" @@
    "analyze" :> "analyze" @@
    "effectiveness" :> "effectiveness" @@
    "calculate" :> "calculate" @@
    "research" :> "research" @@
    "what's" :> "what's" @@
    "paris?" :> "paris?" @@
    "paris" :> "paris"

StripPunct ==
    "research" :> "research" @@
    "transformer" :> "transformer" @@
    "architectures" :> "architectures" @@
    "and" :> "and" @@
    "summarize" :> "summarize" @@
    "tradeoffs" :> "tradeoffs" @@
    "what's" :> "what's" @@
    "the" :> "the" @@
    "weather" :> "weather" @@
    "in" :> "in" @@
    "paris?" :> "paris" @@
    "paris" :> "paris" @@
    "find" :> "find" @@
    "ai" :> "ai" @@
    "model" :> "model" @@
    "compare" :> "compare" @@
    "transformers" :> "transformers" @@
    "remember" :> "remember" @@
    "neural" :> "neural" @@
    "networks" :> "networks" @@
    "store" :> "store" @@
    "best" :> "best" @@
    "what" :> "what" @@
    "did" :> "did" @@
    "we" :> "we" @@
    "earlier" :> "earlier" @@
    "get" :> "get" @@
    "information" :> "information" @@
    "restore" :> "restore" @@
    "remembered" :> "remembered" @@
    "costs" :> "costs" @@
    "store:" :> "store" @@
    "previous" :> "previous" @@
    "finding" :> "finding" @@
    "about" :> "about" @@
    "efficiency" :> "efficiency" @@
    "prior" :> "prior" @@
    "summary" :> "summary" @@
    "mentioning" :> "mentioning" @@
    "their" :> "their" @@
    "forget" :> "forget" @@
    "analyze" :> "analyze" @@
    "effectiveness" :> "effectiveness" @@
    "calculate" :> "calculate"

StrLen ==
    "research" :> 8 @@
    "transformer" :> 11 @@
    "architectures" :> 13 @@
    "and" :> 3 @@
    "summarize" :> 9 @@
    "tradeoffs" :> 9 @@
    "what's" :> 6 @@
    "the" :> 3 @@
    "weather" :> 7 @@
    "in" :> 2 @@
    "paris?" :> 6 @@
    "paris" :> 5 @@
    "find" :> 4 @@
    "ai" :> 2 @@
    "model" :> 5 @@
    "compare" :> 7 @@
    "transformers" :> 12 @@
    "remember" :> 8 @@
    "neural" :> 6 @@
    "networks" :> 8 @@
    "store" :> 5 @@
    "best" :> 4 @@
    "what" :> 4 @@
    "did" :> 3 @@
    "we" :> 2 @@
    "earlier" :> 7 @@
    "get" :> 3 @@
    "information" :> 11 @@
    "restore" :> 7 @@
    "remembered" :> 10 @@
    "costs" :> 5 @@
    "store:" :> 6 @@
    "previous" :> 8 @@
    "finding" :> 7 @@
    "about" :> 5 @@
    "efficiency" :> 10 @@
    "prior" :> 5 @@
    "summary" :> 7 @@
    "mentioning" :> 10 @@
    "their" :> 5 @@
    "forget" :> 6 @@
    "analyze" :> 7 @@
    "effectiveness" :> 13 @@
    "calculate" :> 9

AlphaWords ==
    {"research", "transformer", "architectures", "and", "summarize", "tradeoffs", "the", "weather", "in", "paris", "find", "ai", "model", "compare", "transformers", "remember", "neural", "networks", "store", "best", "what", "did", "we", "earlier", "get", "information", "restore", "remembered", "costs", "previous", "finding", "about", "efficiency", "prior", "summary", "mentioning", "their", "forget", "analyze", "effectiveness", "calculate"}

SubstringsOf ==
    "research" :> {"search", "research"} @@
    "transformer" :> {"transformer"} @@
    "architectures" :> {"architectures"} @@
    "and" :> {"and"} @@
    "summarize" :> {"summarize"} @@
    "tradeoffs" :> {"tradeoffs"} @@
    "what's" :> {"what", "what's"} @@
    "the" :> {"the"} @@
    "weather" :> {"the", "weather", "we"} @@
    "in" :> {"in"} @@
    "paris?" :> {"paris?", "paris"} @@
    "paris" :> {"paris"} @@
    "find" :> {"find", "in"} @@
    "ai" :> {"ai"} @@
    "model" :> {"model"} @@
    "compare" :> {"compare"} @@
    "transformers" :> {"transformer", "transformers"} @@
    "remember" :> {"remember"} @@
    "neural" :> {"neural"} @@
    "networks" :> {"network", "networks"} @@
    "store" :> {"store"} @@
    "best" :> {"best"} @@
    "what" :> {"what"} @@
    "did" :> {"did"} @@
    "we" :> {"we"} @@
    "earlier" :> {"earlier"} @@
    "get" :> {"get"} @@
    "information" :> {"information", "in"} @@
    "restore" :> {"store", "restore"} @@
    "remembered" :> {"remember", "remembered"} @@
    "costs" :> {"costs"} @@
    "store:" :> {"store", "store:"} @@
    "previous" :> {"previous"} @@
    "finding" :> {"find", "in", "finding"} @@
    "about" :> {"about"} @@
    "efficiency" :> {"efficiency"} @@
    "prior" :> {"prior"} @@
    "summary" :> {"summary"} @@
    "mentioning" :> {"in", "mentioning"} @@
    "their" :> {"the", "their"} @@
    "forget" :> {"get", "forget"} @@
    "analyze" :> {"analyze"} @@
    "effectiveness" :> {"effective", "effectiveness"} @@
    "calculate" :> {"calculate"}

WholeWordsOf ==
    "research" :> {} @@
    "transformer" :> {} @@
    "architectures" :> {} @@
    "and" :> {} @@
    "summarize" :> {} @@
    "tradeoffs" :> {} @@
    "what's" :> {} @@
    "the" :> {} @@
    "weather" :> {} @@
    "in" :> {} @@
    "paris?" :> {} @@
    "paris" :> {} @@
    "find" :> {"find"} @@
    "ai" :> {} @@
    "model" :> {} @@
    "compare" :> {} @@
    "transformers" :> {} @@
    "remember" :> {"remember"} @@
    "neural" :> {} @@
    "networks" :> {} @@
    "store" :> {"store"} @@
    "best" :> {} @@
    "what" :> {} @@
    "did" :> {} @@
    "we" :> {} @@
    "earlier" :> {"earlier"} @@
    "get" :> {"get"} @@
    "information" :> {} @@
    "restore" :> {} @@
    "remembered" :> {} @@
    "costs" :> {} @@
    "store:" :> {"store"} @@
    "previous" :> {} @@
    "finding" :> {} @@
    "about" :> {} @@
    "efficiency" :> {} @@
    "prior" :> {} @@
    "summary" :> {} @@
    "mentioning" :> {} @@
    "their" :> {} @@
    "forget" :> {} @@
    "analyze" :> {} @@
    "effectiveness" :> {} @@
    "calculate" :> {}

EndsWithWhat ==
    {"what"}

StartsWithDid ==
    {"did"}

SuffixesOf ==
    "research" :> {"research"} @@
    "transformer" :> {"transformer"} @@
    "architectures" :> {"architectures"} @@
    "and" :> {"and"} @@
    "summarize" :> {"summarize"} @@
    "tradeoffs" :> {"tradeoffs"} @@
    "what's" :> {"what's"} @@
    "the" :> {"the"} @@
    "weather" :> {"weather"} @@
    "in" :> {"in"} @@
    "paris?" :> {"paris?"} @@
    "paris" :> {"paris"} @@
    "find" :> {"find"} @@
    "ai" :> {"ai"} @@
    "model" :> {"model"} @@
    "compare" :> {"compare"} @@
    "transformers" :> {"transformers"} @@
    "remember" :> {"remember"} @@
    "neural" :> {"neural"} @@
    "networks" :> {"networks"} @@
    "store" :> {"store"} @@
    "best" :> {"best"} @@
    "what" :> {"what"} @@
    "did" :> {"did"} @@
    "we" :> {"we"} @@
    "earlier" :> {"earlier"} @@
    "get" :> {"get"} @@
    "information" :> {"information"} @@
    "restore" :> {"store", "restore"} @@
    "remembered" :> {"remembered"} @@
    "costs" :> {"costs"} @@
    "store:" :> {"store:"} @@
    "previous" :> {"previous"} @@
    "finding" :> {"finding"} @@
    "about" :> {"about"} @@
    "efficiency" :> {"efficiency"} @@
    "prior" :> {"prior"} @@
    "summary" :> {"summary"} @@
    "mentioning" :> {"mentioning"} @@
    "their" :> {"their"} @@
    "forget" :> {"get", "forget"} @@
    "analyze" :> {"analyze"} @@
    "effectiveness" :> {"effectiveness"} @@
    "calculate" :> {"calculate"}

PrefixesOf ==
    "research" :> {"research"} @@
    "transformer" :> {"transformer"} @@
    "architectures" :> {"architectures"} @@
    "and" :> {"and"} @@
    "summarize" :> {"summarize"} @@
    "tradeoffs" :> {"tradeoffs"} @@
    "what's" :> {"what's", "what"} @@
    "the" :> {"the"} @@
    "weather" :> {"weather", "we"} @@
    "in" :> {"in"} @@
    "paris?" :> {"paris?", "paris"} @@
    "paris" :> {"paris"} @@
    "find" :> {"find"} @@
    "ai" :> {"ai"} @@
    "model" :> {"model"} @@
    "compare" :> {"compare"} @@
    "transformers" :> {"transformer", "transformers"} @@
    "remember" :> {"remember"} @@
    "neural" :> {"neural"} @@
    "networks" :> {"networks"} @@
    "store" :> {"store"} @@
    "best" :> {"best"} @@
    "what" :> {"what"} @@
    "did" :> {"did"} @@
    "we" :> {"we"} @@
    "earlier" :> {"earlier"} @@
    "get" :> {"get"} @@
    "information" :> {"in", "information"} @@
    "restore" :> {"restore"} @@
    "remembered" :> {"remember", "remembered"} @@
    "costs" :> {"costs"} @@
    "store:" :> {"store", "store:"} @@
    "previous" :> {"previous"} @@
    "finding" :> {"find", "finding"} @@
    "about" :> {"about"} @@
    "efficiency" :> {"efficiency"} @@
    "prior" :> {"prior"} @@
    "summary" :> {"summary"} @@
    "mentioning" :> {"mentioning"} @@
    "their" :> {"the", "their"} @@
    "forget" :> {"forget"} @@
    "analyze" :> {"analyze"} @@
    "effectiveness" :> {"effectiveness"} @@
    "calculate" :> {"calculate"}

knowledge_base ==
    {"neural_networks", "machine_learning", "transformers"}

TopicKeywords ==
    "neural_networks" :> {"neural", "networks"} @@
    "machine_learning" :> {"machine", "learning"} @@
    "transformers" :> {"transformers"}

DataTextWords ==
    "neural_networks" :> {"transformer", "in", "neural", "networks"} @@
    "machine_learning" :> {"and", "in", "neural", "networks"} @@
    "transformers" :> {"architectures", "tradeoffs", "efficiency"}

TextOccurs ==
    "fallback" :> {"in", "find", "we", "information", "about"} @@
    "limitation" :> {"transformer", "and", "the", "in", "ai", "transformers", "neural", "networks", "information", "about"} @@
    "research_header" :> {"research", "the", "in", "information"} @@
    "topic_neural_networks" :> {"transformer", "the", "in", "ai", "neural", "networks"} @@
    "topic_machine_learning" :> {"and", "the", "in", "ai", "neural", "networks"} @@
    "topic_transformers" :> {"transformer", "architectures", "tradeoffs", "transformers", "efficiency"} @@
    "memory_reuse" :> {"transformer", "in", "transformers", "best"} @@
    "analysis_comparison" :> {"the"} @@
    "analysis_no_data" :> {} @@
    "analysis_effectiveness" :> {"in", "find", "ai", "finding", "effectiveness"} @@
    "analysis_calculation" :> {} @@
    "analysis_general" :> {} @@
    "previous_context" :> {"in", "information", "previous"} @@
    "json_interaction" :> {} @@
    "memory_agent" :> {} @@
    "research_agent" :> {"research"} @@
    "analysis_agent" :> {} @@
    "json_note" :> {"transformer", "transformers"} @@
    "json_empty" :> {}

QReuse ==
    <<"Research", "transformer", "architectures", "and", "summarize", "tradeoffs">>

QWeather ==
    <<"What's", "the", "weather", "in", "Paris?">>

QFind ==
    <<"find", "ai", "model">>

QCompare ==
    <<"compare", "transformers">>

QRemember ==
    <<"remember", "neural", "networks">>

QStore ==
    <<"store", "best", "model">>

QEarlier ==
    <<"what", "did", "we", "compare", "earlier">>

QGet ==
    <<"get", "information">>

QRestore ==
    <<"restore", "information">>

QRemembered ==
    <<"we", "remembered", "transformers">>

QCosts ==
    <<"find", "transformer", "costs">>

Note1 ==
    <<"store:", "previous", "finding", "about", "transformers", "efficiency", "tradeoffs">>

Note2 ==
    <<"store:", "prior", "summary", "mentioning", "transformer", "architectures", "and", "their", "costs">>

(***************************************************************************)
(* Bounds of the model and abstract values.                                *)
(***************************************************************************)
MaxRecords == 2

MaxPlanLen == 2

\* the number of process_user_query calls that run concurrently
MaxCalls == 2

NoDistance == -1

Elapsed == 1

EmptyDict == << >>

(***************************************************************************)
(* Text helpers: a text is the sequence of its whitespace-separated words. *)
(***************************************************************************)
Range(s) == {s[i] : i \in DOMAIN s}

Min(a, b) == IF a < b THEN a ELSE b

Max(a, b) == IF a > b THEN a ELSE b

Take(s, n) == SubSeq(s, 1, Min(n, Len(s)))

Get(dict, key, default) == IF key \in DOMAIN dict THEN dict[key] ELSE default

lower(text) == [i \in DOMAIN text |-> Lower[text[i]]]

strip(text) == [i \in DOMAIN text |-> StripPunct[text[i]]]

\* the k without blanks for which `k in text`: k lies inside one word of the text
SubstringsIn(text) == UNION {SubstringsOf[text[i]] : i \in DOMAIN text}

contains(text, k) == k \in SubstringsIn(text)

\* `"what did" in text`
contains_what_did(text) ==
    \E i \in 1..(Len(text) - 1) : text[i] \in EndsWithWhat /\ text[i + 1] \in StartsWithDid

\* the words for which re.search(rf"\b{word}\b", text) matches
WholeWordsIn(text) == UNION {WholeWordsOf[text[i]] : i \in DOMAIN text}

\* the tokens of Tokens that occur somewhere in the text
Occurs(text) == UNION {SubstringsOf[lower(text)[i]] \cap Tokens : i \in DOMAIN text}

(***************************************************************************)
(* CoordinatorAgent._rule_based_analyze_complexity                         *)
(***************************************************************************)
research_words == {"find", "search", "what", "types", "information", "about"}

analysis_words == {"compare", "analyze", "evaluate", "effective", "better", "best"}

memory_words == {"remember", "earlier", "before", "previous"}

NeedsResearch(query_lower) == research_words \cap SubstringsIn(query_lower) # {}

NeedsAnalysis(query_lower) == analysis_words \cap SubstringsIn(query_lower) # {}

\* the memory rule without its two-word phrase
NeedsMemory_single_words(query_lower) == memory_words \cap SubstringsIn(query_lower) # {}

NeedsMemory(query_lower) ==
    \/ memory_words \cap SubstringsIn(query_lower) # {}
    \/ contains_what_did(query_lower)

\* a plan: json is the kind of JSON value it is, order_is_list whether execution_order is a list
Plan(json, complexity, agents_needed, execution_order, order_is_list) ==
    [json |-> json, complexity |-> complexity, agents_needed |-> agents_needed,
     execution_order |-> execution_order, order_is_list |-> order_is_list]

\* the label with no third level
Complexity_of_two_levels(n) == IF n = 1 THEN "simple" ELSE "moderate"

Complexity(n) == IF n = 1 THEN "simple" ELSE IF n = 2 THEN "moderate" ELSE "complex"

\* the planner with the research step appended where the code inserts it at the front
rule_based_analyze_complexity_appending(q) ==
    LET plan(needs_research, needs_analysis, needs_memory) ==
            LET steps1 == IF needs_research THEN <<"research">> ELSE << >>
                steps2 == IF ~needs_analysis THEN steps1
                          ELSE IF ~needs_research THEN <<"analysis", "research">>
                          ELSE Append(steps1, "analysis")
                steps3 == IF needs_memory THEN <<"memory_retrieval">> \o steps2 ELSE steps2
            IN  IF steps3 = << >>
                THEN Plan("object", "simple", <<"research_agent">>, <<"research">>, TRUE)
                ELSE Plan("object", Complexity(Len(steps3)), << >>, steps3, TRUE)
        on(query_lower) ==
            plan(NeedsResearch(query_lower), NeedsAnalysis(query_lower), NeedsMemory(query_lower))
    IN  on(lower(q))

rule_based_analyze_complexity(q) ==
    LET plan(needs_research, needs_analysis, needs_memory) ==
            LET agents1 == IF needs_research THEN <<"research_agent">> ELSE << >>
                steps1  == IF needs_research THEN <<"research">> ELSE << >>
                insert  == needs_analysis /\ "research_agent" \notin Range(agents1)
                agents2 == IF ~needs_analysis THEN agents1
                           ELSE IF insert THEN <<"research_agent">> \o Append(agents1, "analysis_agent")
                           ELSE Append(agents1, "analysis_agent")
                steps2  == IF ~needs_analysis THEN steps1
                           ELSE IF insert THEN <<"research">> \o Append(steps1, "analysis")
                           ELSE Append(steps1, "analysis")
                agents3 == IF needs_memory THEN Append(agents2, "memory_agent") ELSE agents2
                steps3  == IF needs_memory THEN <<"memory_retrieval">> \o steps2 ELSE steps2
            IN  IF agents3 = << >>
                THEN Plan("object", "simple", <<"research_agent">>, <<"research">>, TRUE)
                ELSE Plan("object", Complexity(Len(agents3)), agents3, steps3, TRUE)
        on(query_lower) ==
            plan(NeedsResearch(query_lower), NeedsAnalysis(query_lower), NeedsMemory(query_lower))
    IN  on(lower(q))

(***************************************************************************)
(* models/message.py                                                       *)
(***************************************************************************)
AgentMessage(sender, recipient, content, metadata) ==
    [sender |-> sender, recipient |-> recipient, content |-> content, metadata |-> metadata]

TaskResult(agent_id, success, data, confidence, execution_time, error) ==
    [agent_id |-> agent_id, success |-> success, data |-> data, confidence |-> confidence,
     execution_time |-> execution_time, error |-> error]

(***************************************************************************)
(* ResearchAgent.process_task                                              *)
(***************************************************************************)
research_stop_words ==
    {"what", "is", "are", "how", "the", "a", "an", "and", "or", "but", "in", "on", "at", "to",
     "for", "of", "with", "by", "about", "from", "can", "you", "tell", "me"}

domain_keywords ==
    {"neural", "network", "machine", "learning", "transformer", "ai", "artificial",
     "intelligence", "algorithm", "model", "training", "data", "deep", "classification",
     "regression", "supervised", "unsupervised", "reinforcement"}

DirectMatches(q) ==
    LET match(found) == {topic \in knowledge_base : TopicKeywords[topic] \cap found # {}}
    IN  match(SubstringsIn(q))

FuzzyQueryWords(q) == SelectSeq(q, LAMBDA word : word \notin research_stop_words /\ StrLen[word] > 2)

FuzzyMatches(q) ==
    LET query_words == FuzzyQueryWords(q)
        matching_words(topic) ==
            Cardinality({i \in DOMAIN query_words : query_words[i] \in DataTextWords[topic]})
    IN  IF query_words = << >> THEN {}
        ELSE {topic \in knowledge_base : 10 * matching_words(topic) >= 3 * Len(query_words)}

ResearchResults(source, topics, limitation, hits, best_distance) ==
    [source |-> source, topics |-> topics, knowledge_limitation |-> limitation,
     hits |-> hits, best_distance |-> best_distance, reused |-> (source = "memory")]

\* the fuzzy search run after direct matches as well
ResearchProcessTask_always_fuzzy(message) ==
    LET answer(direct, fuzzy, has_domain_keywords) ==
            IF direct \cup fuzzy = {} /\ ~has_domain_keywords
            THEN TaskResult("research_agent", TRUE,
                            [research_results |-> ResearchResults("None", {}, TRUE, << >>, NoDistance),
                             limitation_detected |-> TRUE],
                            90, Elapsed, "None")
            ELSE TaskResult("research_agent", direct \cup fuzzy # {},
                            [research_results |->
                                ResearchResults("None", direct \cup fuzzy, FALSE, << >>, NoDistance),
                             limitation_detected |-> FALSE],
                            Min(30 * Cardinality(direct) + 20 * Cardinality(fuzzy), 100),
                            Elapsed, "None")
        match(q, direct) ==
            answer(direct, FuzzyMatches(q) \ direct,
                   domain_keywords \cap SubstringsIn(q) # {})
        on(q) == match(q, DirectMatches(q))
    IN  on(lower(message.content))

ResearchProcessTask(message) ==
    LET answer(direct, fuzzy, has_domain_keywords) ==
            IF direct \cup fuzzy = {} /\ ~has_domain_keywords
            THEN TaskResult("research_agent", TRUE,
                            [research_results |-> ResearchResults("None", {}, TRUE, << >>, NoDistance),
                             limitation_detected |-> TRUE],
                            90, Elapsed, "None")
            ELSE TaskResult("research_agent", direct \cup fuzzy # {},
                            [research_results |->
                                ResearchResults("None", direct \cup fuzzy, FALSE, << >>, NoDistance),
                             limitation_detected |-> FALSE],
                            Min(30 * Cardinality(direct) + 20 * Cardinality(fuzzy), 100),
                            Elapsed, "None")
        match(q, direct) ==
            answer(direct, IF direct = {} THEN FuzzyMatches(q) ELSE {},
                   domain_keywords \cap SubstringsIn(q) # {})
        on(q) == match(q, DirectMatches(q))
    IN  on(lower(message.content))

(***************************************************************************)
(* AnalysisAgent.process_task                                              *)
(***************************************************************************)
\* the keys of a research_results dict
ItemKeys(items) ==
    IF items.source = "memory" THEN {"source", "hits", "best_distance", "reused"}
    ELSE IF items.knowledge_limitation THEN {"knowledge_limitation"}
    ELSE items.topics

\* "efficiency" in str(items[item]).lower()
MentionsEfficiency(items, item) ==
    IF item \in knowledge_base THEN "efficiency" \in DataTextWords[item]
    ELSE item = "hits" /\ \E i \in DOMAIN items.hits : "efficiency" \in items.hits[i].occurs

\* the comparison looking for differences among fewer than two items as well
perform_comparison_of_any_number(data) ==
    IF DOMAIN data = {} \/ "research_results" \notin DOMAIN data
    THEN [kind |-> "no_data", items_compared |-> {}, key_differences |-> {}]
    ELSE LET items == data.research_results
         IN  [kind |-> "comparison", items_compared |-> ItemKeys(items),
              key_differences |-> {item \in ItemKeys(items) : MentionsEfficiency(items, item)}]

perform_comparison(data) ==
    IF DOMAIN data = {} \/ "research_results" \notin DOMAIN data
    THEN [kind |-> "no_data", items_compared |-> {}, key_differences |-> {}]
    ELSE LET items == data.research_results
         IN  [kind |-> "comparison", items_compared |-> ItemKeys(items),
              key_differences |-> IF Cardinality(ItemKeys(items)) >= 2
                                  THEN {item \in ItemKeys(items) : MentionsEfficiency(items, item)}
                                  ELSE {}]

\* the dispatch that looks for "calculate" before "compare"
AnalysisResult_calculate_first(content, data) ==
    LET route(found) ==
            IF "calculate" \in found
            THEN [kind |-> "calculation", items_compared |-> {}, key_differences |-> {}]
            ELSE IF "compare" \in found THEN perform_comparison(data)
            ELSE IF found \cap {"analyze", "effectiveness"} # {}
            THEN [kind |-> "effectiveness", items_compared |-> {}, key_differences |-> {}]
            ELSE [kind |-> "general", items_compared |-> {}, key_differences |-> {}]
    IN  route(SubstringsIn(content))

AnalysisResult(content, data) ==
    LET route(found) ==
            IF "compare" \in found THEN perform_comparison(data)
            ELSE IF found \cap {"analyze", "effectiveness"} # {}
            THEN [kind |-> "effectiveness", items_compared |-> {}, key_differences |-> {}]
            ELSE IF "calculate" \in found
            THEN [kind |-> "calculation", items_compared |-> {}, key_differences |-> {}]
            ELSE [kind |-> "general", items_compared |-> {}, key_differences |-> {}]
    IN  route(SubstringsIn(content))

\* research_results handed over as a list makes items.keys() raise
AnalysisRaises(content, data) ==
    /\ contains(content, "compare")
    /\ "research_results" \in DOMAIN data
    /\ data.research_results.source = "list"

AnalysisProcessTask(message) ==
    LET run(content, data) ==
            IF AnalysisRaises(content, data)
            THEN TaskResult("analysis_agent", FALSE, EmptyDict, 0, Elapsed,
                            "'list' object has no attribute 'keys'")
            ELSE TaskResult("analysis_agent", TRUE,
                            [analysis |-> AnalysisResult(content, data)],
                            80, Elapsed, "None")
    IN  run(lower(message.content), Get(message.metadata, "data", EmptyDict))

(***************************************************************************)
(* The persistent store of the MemoryAgent: per partition a Chroma         *)
(* collection (a sequence of entries in insertion order) and, for the      *)
(* conversation and knowledge partitions, the metadata dict.               *)
(* A document is kept as the words of message.content, the set of Tokens   *)
(* that occur in its text (content plus serialized data) and the lowered   *)
(* texts that are embedded in it.                                          *)
(***************************************************************************)
MemoryId(memory_type, now) == [memory_type |-> memory_type, timestamp |-> now]

NoId == MemoryId("None", -1)

\* tokens and embedded texts of json.dumps(data)
DataOccurs(data) ==
    IF "query" \in DOMAIN data
    THEN TextOccurs["json_interaction"] \cup Occurs(data.query) \cup data.response.occurs
         \cup UNION {TextOccurs[data.agents_used[i]] : i \in DOMAIN data.agents_used}
    ELSE IF "note" \in DOMAIN data
    THEN TextOccurs["json_note"] \cup Occurs(data.note)
    ELSE TextOccurs["json_empty"]

DataEmbedded(data) ==
    IF "query" \in DOMAIN data THEN {lower(data.query)} \cup data.response.embedded
    ELSE IF "note" \in DOMAIN data THEN {lower(data.note)}
    ELSE {}

Document(content, data) ==
    [content  |-> content,
     occurs   |-> Occurs(content) \cup DataOccurs(data),
     embedded |-> {lower(content)} \cup DataEmbedded(data)]

\* keywords = [w for w in words if w.isalpha() and len(w) > 3][:10]
ExtractKeywords(content) ==
    Take(SelectSeq(strip(lower(content)), LAMBDA w : w \in AlphaWords /\ StrLen[w] > 3), 10)

\* `k in stored_csv`, the stored keywords joined by commas
InCsv(k, keywords_csv) == \E i \in DOMAIN keywords_csv : k \in SubstringsOf[keywords_csv[i]]

(***************************************************************************)
(* MemoryAgent._save_metadata: what the file holds after the dump of data  *)
(* into it.                                                                *)
(***************************************************************************)
\* a dump that leaves out the records the file holds already
save_metadata_of_new_records(data, file_content) ==
    [id \in DOMAIN data \ DOMAIN file_content |-> data[id]]

save_metadata(data, file_content) == data

(***************************************************************************)
(* MemoryAgent._store_memory.  fault names the persistence call that       *)
(* raises: "add" the collection.add, "save" the _save_metadata.            *)
(***************************************************************************)
store_memory(message, store, now, fault) ==
    LET md          == message.metadata
        data        == Get(md, "data", EmptyDict)
        memory_type == Get(md, "memory_type", "conversation")
        source      == Get(md, "source", "unknown")
        confidence  == Get(md, "confidence", 50)
        agent_name  == Get(md, "agent", message.sender)
        memory_id   == MemoryId(memory_type, now)
        stored      == [action |-> "stored", memory_id |-> memory_id, memory_type |-> memory_type]
        outcome(updated) ==
            IF memory_type = "conversation"
            THEN IF fault = "add"
                 THEN [raised |-> TRUE, error |-> "collection.add failed", data |-> EmptyDict,
                       store |-> store]
                 ELSE IF fault = "save"
                 THEN [raised |-> TRUE, error |-> "metadata file not written", data |-> EmptyDict,
                       store |-> updated]
                 ELSE [raised |-> FALSE, error |-> "None", data |-> stored,
                       store |-> [updated EXCEPT
                                    !.conversation_metadata_file =
                                        save_metadata(updated.conversation_metadata, @)]]
            ELSE IF memory_type \in {"knowledge", "agent_state"}
            THEN [raised |-> TRUE, error |-> "'MemoryAgent' object has no attribute '_cheap_embed'",
                  data |-> EmptyDict, store |-> store]
            ELSE [raised |-> FALSE, error |-> "None", data |-> stored, store |-> store]
        write(keywords, topic) ==
            outcome([store EXCEPT
                       !.conversation_collection =
                           Append(@, [id |-> memory_id,
                                      document |-> Document(message.content, data),
                                      metadata |-> [timestamp |-> now, sender |-> message.sender,
                                                    type |-> "conversation",
                                                    topic |-> IF topic = "None" THEN "" ELSE topic,
                                                    keywords_csv |-> keywords, source |-> source,
                                                    agent |-> agent_name,
                                                    confidence |-> confidence]]),
                       !.conversation_metadata =
                           (memory_id :> [content |-> message.content, data |-> data,
                                          timestamp |-> now, sender |-> message.sender,
                                          topic |-> topic, keywords |-> keywords,
                                          source |-> source, agent |-> agent_name,
                                          confidence |-> confidence]) @@ @])
    IN  write(IF Get(md, "keywords", << >>) = << >> THEN ExtractKeywords(message.content)
              ELSE md.keywords,
              IF "topic" \in DOMAIN md THEN md.topic ELSE Get(data, "topic", "None"))

(***************************************************************************)
(* MemoryAgent._retrieve_memory                                            *)
(***************************************************************************)
\* the records sorted without reverse=True
RecentFirst_oldest_first(metadata) ==
    LET ids == DOMAIN metadata
        rank(id) == 1 + Cardinality({other \in ids : metadata[other].timestamp < metadata[id].timestamp})
    IN  [r \in 1..Cardinality(ids) |-> CHOOSE id \in ids : rank(id) = r]

\* sorted(metadata.items(), key=timestamp, reverse=True)
RecentFirst(metadata) ==
    LET ids == DOMAIN metadata
        rank(id) == 1 + Cardinality({other \in ids : metadata[other].timestamp > metadata[id].timestamp})
    IN  [r \in 1..Cardinality(ids) |-> CHOOSE id \in ids : rank(id) = r]

retrieve_memory(message, store) ==
    LET md          == message.metadata
        memory_id   == Get(md, "memory_id", NoId)
        memory_type == Get(md, "memory_type", "conversation")
        limit       == Get(md, "limit", 5)
        metadata    == IF memory_type = "conversation" THEN store.conversation_metadata
                       ELSE store.knowledge_metadata
        recent      == Take(RecentFirst(metadata), limit)
    IN  IF memory_id # NoId
        THEN IF memory_type = "conversation" /\ memory_id \in DOMAIN store.conversation_metadata
             THEN [action |-> "retrieved", memory |-> store.conversation_metadata[memory_id]]
             ELSE IF memory_type = "knowledge" /\ memory_id \in DOMAIN store.knowledge_metadata
             THEN [action |-> "retrieved", memory |-> store.knowledge_metadata[memory_id]]
             ELSE [action |-> "retrieved", result |-> "not found"]
        ELSE [action |-> "retrieved",
              memories |-> [i \in DOMAIN recent |-> [id |-> recent[i]] @@ metadata[recent[i]]],
              count |-> Len(recent)]
(***************************************************************************)
(* MemoryAgent._search_memory.  The vector index is external: env.fault    *)
(* names the Chroma calls that raise ("query": collection.query, "get":    *)
(* collection.get, "query_get": both) and env.distance gives the distance  *)
(* the index reports for each entry.                                       *)
(***************************************************************************)
Distances == {50, 120}

search_stop_words ==
    {"the", "a", "an", "and", "or", "but", "in", "on", "at", "to", "for", "of", "with", "by",
     "about", "is", "are", "what", "find", "search"}

\* collection.query: the n_results nearest entries, nearest first
NearestFirst(collection, distance, n_results) ==
    LET n == Len(collection)
        rank(i) == 1 + Cardinality({j \in 1..n : \/ distance[j] < distance[i]
                                                 \/ distance[j] = distance[i] /\ j < i})
    IN  Take([r \in 1..n |-> CHOOSE i \in 1..n : rank(i) = r], n_results)

Hit(entry, distance) ==
    [content |-> entry.document.content, occurs |-> entry.document.occurs,
     embedded |-> entry.document.embedded, metadata |-> entry.metadata,
     distance |-> distance, id |-> entry.id]

MatchTopic(topic_filter, meta) == topic_filter = "None" \/ meta.topic = topic_filter

MatchKeywords(keywords_filter, meta) ==
    keywords_filter = << >> \/ \E i \in DOMAIN keywords_filter : InCsv(keywords_filter[i], meta.keywords_csv)

\* q_lower in doc.lower(), for the words q_lower of the whole query
PhraseIn(q_lower, document) ==
    IF Len(q_lower) = 1 THEN q_lower[1] \in document.occurs
    ELSE \E text \in document.embedded : \E at \in 0..(Len(text) - Len(q_lower)) :
            /\ q_lower[1] \in SuffixesOf[text[at + 1]]
            /\ q_lower[Len(q_lower)] \in PrefixesOf[text[at + Len(q_lower)]]
            /\ \A i \in 2..(Len(q_lower) - 1) : q_lower[i] = text[at + i]

VectorHits(collection, env, n_results, topic_filter, keywords_filter) ==
    LET hits(match) == [k \in DOMAIN match |-> Hit(collection[match[k]], env.distance[match[k]])]
    IN  hits(SelectSeq(NearestFirst(collection, env.distance, n_results),
                       LAMBDA i : /\ MatchTopic(topic_filter, collection[i].metadata)
                                  /\ MatchKeywords(keywords_filter, collection[i].metadata)))

TokenHits(collection, query, n_results, topic_filter, keywords_filter) ==
    LET hits(match) == Take([k \in DOMAIN match |-> Hit(collection[match[k]], NoDistance)], n_results)
        scan(q_tokens) ==
            hits(SelectSeq([i \in 1..Len(collection) |-> i],
                           LAMBDA i : /\ \E t \in DOMAIN q_tokens :
                                            q_tokens[t] \in collection[i].document.occurs
                                      /\ MatchTopic(topic_filter, collection[i].metadata)
                                      /\ MatchKeywords(keywords_filter, collection[i].metadata)))
    IN  scan(SelectSeq(lower(query), LAMBDA w : w \notin search_stop_words /\ StrLen[w] > 2))

LiteralHits(collection, query) ==
    LET hits(match) == [k \in DOMAIN match |-> Hit(collection[match[k]], NoDistance)]
        scan(q_lower) == hits(SelectSeq([i \in 1..Len(collection) |-> i],
                                        LAMBDA i : PhraseIn(q_lower, collection[i].document)))
    IN  scan(lower(query))

search_memory(message, store, env) ==
    LET md              == message.metadata
        query           == message.content
        collection      == IF Get(md, "memory_type", "conversation") = "conversation"
                           THEN store.conversation_collection
                           ELSE store.knowledge_collection
        query_raises    == env.fault \in {"query", "query_get"}
        get_raises      == env.fault \in {"get", "query_get"}
        searched(search_results) ==
            [raised |-> FALSE, error |-> "None", store |-> store,
             data |-> [action |-> "searched", query |-> query, results |-> search_results,
                       count |-> Len(search_results)]]
        after(first) ==
            IF get_raises /\ (query_raises \/ first = << >>)
            THEN [raised |-> TRUE, error |-> "collection.get failed", data |-> EmptyDict, store |-> store]
            ELSE searched(IF first = << >> THEN LiteralHits(collection, query) ELSE first)
        tier(n_results, topic_filter, keywords_filter) ==
            after(IF query_raises
                  THEN TokenHits(collection, query, n_results, topic_filter, keywords_filter)
                  ELSE VectorHits(collection, env, n_results, topic_filter, keywords_filter))
    IN  tier(Get(md, "limit", 3), Get(md, "topic", "None"), Get(md, "keywords", << >>))

(***************************************************************************)
(* MemoryAgent._general_memory_query and MemoryAgent.process_task          *)
(***************************************************************************)
Returned(data, store) == [raised |-> FALSE, error |-> "None", data |-> data, store |-> store]

\* the operation process_task routes the message to
Dispatch(message) ==
    LET route(words) ==
            IF words \cap {"store", "save"} # {} THEN "store"
            ELSE IF words \cap {"retrieve", "get"} # {} THEN "retrieve"
            ELSE IF words \cap {"search", "find"} # {} THEN "search"
            ELSE "general"
    IN  route(WholeWordsIn(lower(message.content)))

\* the branch _general_memory_query takes
GeneralRoute(message) ==
    LET route(content, found) ==
            IF contains_what_did(content) \/ found \cap {"earlier", "before"} # {} THEN "search"
            ELSE IF "remember" \in found THEN "store"
            ELSE "status"
        on(content) == route(content, SubstringsIn(content))
    IN  on(lower(message.content))

general_memory_query(message, store, now, env) ==
    LET handle(route) ==
            IF route = "search" THEN search_memory(message, store, env)
            ELSE IF route = "store" THEN store_memory(message, store, now, env.fault)
            ELSE Returned([action |-> "status",
                           conversation_memories |-> Cardinality(DOMAIN store.conversation_metadata),
                           knowledge_memories |-> Cardinality(DOMAIN store.knowledge_metadata)], store)
    IN  handle(GeneralRoute(message))

MemoryOutcome(message, store, now, env) ==
    LET handle(dispatch) ==
            IF dispatch = "store" THEN store_memory(message, store, now, env.fault)
            ELSE IF dispatch = "retrieve" THEN Returned(retrieve_memory(message, store), store)
            ELSE IF dispatch = "search" THEN search_memory(message, store, env)
            ELSE general_memory_query(message, store, now, env)
    IN  handle(Dispatch(message))

\* process_task without its except clause zeroing the confidence
MemoryProcessTask_keeping_confidence(message, store, now, env) ==
    LET done(outcome) ==
            [result |-> TaskResult("memory_agent", ~outcome.raised, outcome.data, 90, Elapsed,
                                   outcome.error),
             store  |-> outcome.store]
    IN  done(MemoryOutcome(message, store, now, env))

\* [result |-> the TaskResult, store |-> the store after the call]
MemoryProcessTask(message, store, now, env) ==
    LET done(outcome) ==
            [result |-> IF outcome.raised
                        THEN TaskResult("memory_agent", FALSE, EmptyDict, 0, Elapsed, outcome.error)
                        ELSE TaskResult("memory_agent", TRUE, outcome.data, 90, Elapsed, "None"),
             store  |-> outcome.store]
    IN  done(MemoryOutcome(message, store, now, env))

\* the operation a message ends up in
Operation(message) ==
    LET pick(dispatch) == IF dispatch # "general" THEN dispatch ELSE GeneralRoute(message)
    IN  pick(Dispatch(message))

\* the environments that make a difference to a process_task call that ends up in the
\* operation: the distances matter only when collection.query answers
Envs(operation, store) ==
    LET n == Len(store.conversation_collection)
    IN  IF operation = "search"
        THEN [fault : {"none", "get"}, distance : [1..n -> Distances]]
             \cup [fault : {"query", "query_get"}, distance : [1..n -> {120}]]
        ELSE IF operation = "store"
        THEN [fault : {"none", "add", "save"}, distance : [1..n -> {120}]]
        ELSE [fault : {"none"}, distance : [1..n -> {120}]]
(***************************************************************************)
(* CoordinatorAgent._normalize_memory_context                              *)
(***************************************************************************)
MemoryToHit(m) ==
    [content |-> m.content, occurs |-> Occurs(m.content), embedded |-> {lower(m.content)},
     metadata |-> [k \in DOMAIN m \ {"content", "data"} |-> m[k]],
     distance |-> NoDistance, id |-> m.id]

BestDistance(results) ==
    LET present == {results[i].distance : i \in DOMAIN results} \ {NoDistance}
    IN  IF present = {} THEN NoDistance
        ELSE CHOOSE d \in present : \A other \in present : d <= other

\* the normalization that knows the shape of a Search only
normalize_memory_context_of_results_only(raw) ==
    LET results == IF "results" \in DOMAIN raw THEN raw.results ELSE << >>
    IN  [results |-> results, count |-> Len(results), best_distance |-> BestDistance(results)]

normalize_memory_context(raw) ==
    LET results == IF "results" \in DOMAIN raw THEN raw.results
                   ELSE IF "memories" \in DOMAIN raw
                   THEN [i \in DOMAIN raw.memories |-> MemoryToHit(raw.memories[i])]
                   ELSE << >>
    IN  [results |-> results, count |-> Len(results), best_distance |-> BestDistance(results)]

(***************************************************************************)
(* CoordinatorAgent._get_memory_context: the message sent to the Memory    *)
(* worker.                                                                 *)
(***************************************************************************)
coordinator_stop_words ==
    {"the", "a", "an", "and", "or", "but", "in", "on", "at", "to", "for", "of", "with", "by",
     "about", "is", "are", "what", "find", "search", "retrieve", "get"}

MeaningfulWords(q) ==
    strip(SelectSeq(lower(q), LAMBDA w : w \notin coordinator_stop_words /\ StrLen[w] > 2))

MemoryContextMessage(q) ==
    AgentMessage("coordinator", "memory_agent", q \o Take(MeaningfulWords(q), 10),
                 [memory_type |-> "conversation", limit |-> 5,
                  keywords |-> Take(MeaningfulWords(q), 8)])

(***************************************************************************)
(* CoordinatorAgent._execute_task_plan: the reuse decision and the         *)
(* synthetic results.                                                      *)
(***************************************************************************)
\* the reuse decision taken on the number of hits alone
SkipResearch_by_count_only(memory_ctx) == memory_ctx.count >= 2

SkipResearch(memory_ctx) ==
    \/ memory_ctx.best_distance # NoDistance /\ memory_ctx.best_distance <= 80
    \/ memory_ctx.count >= 2

\* the synthetic memory result reported as a failure when memory holds nothing
MemoryTraces_failing_when_empty(memory_ctx) ==
    IF memory_ctx.count > 0
    THEN <<TaskResult("memory_agent", TRUE,
                      [results |-> memory_ctx.results, count |-> memory_ctx.count,
                       best_distance |-> memory_ctx.best_distance,
                       used |-> SkipResearch(memory_ctx), consulted |-> TRUE], 60, 0, "None"),
           TaskResult("memory_agent", TRUE,
                      [results |-> memory_ctx.results, count |-> memory_ctx.count,
                       best_distance |-> memory_ctx.best_distance],
                      IF memory_ctx.best_distance = NoDistance THEN 60
                      ELSE Max(10, 100 - memory_ctx.best_distance), 0, "None")>>
    ELSE <<TaskResult("memory_agent", FALSE,
                      [results |-> memory_ctx.results, count |-> memory_ctx.count,
                       best_distance |-> memory_ctx.best_distance,
                       used |-> SkipResearch(memory_ctx), consulted |-> TRUE], 0, 0, "None")>>

\* the synthetic memory result with confidence 0.6 whether memory holds something or not
MemoryTraces_with_one_confidence(memory_ctx) ==
    LET first  == TaskResult("memory_agent", TRUE,
                             [results |-> memory_ctx.results, count |-> memory_ctx.count,
                              best_distance |-> memory_ctx.best_distance,
                              used |-> SkipResearch(memory_ctx), consulted |-> TRUE],
                             60, 0, "None")
        second == TaskResult("memory_agent", TRUE,
                             [results |-> memory_ctx.results, count |-> memory_ctx.count,
                              best_distance |-> memory_ctx.best_distance],
                             IF memory_ctx.best_distance = NoDistance THEN 60
                             ELSE Max(10, 100 - memory_ctx.best_distance), 0, "None")
    IN  IF memory_ctx.count > 0 THEN <<first, second>> ELSE <<first>>

MemoryTraces(memory_ctx) ==
    LET first  == TaskResult("memory_agent", TRUE,
                             [results |-> memory_ctx.results, count |-> memory_ctx.count,
                              best_distance |-> memory_ctx.best_distance,
                              used |-> SkipResearch(memory_ctx), consulted |-> TRUE],
                             IF memory_ctx.count > 0 THEN 60 ELSE 30, 0, "None")
        second == TaskResult("memory_agent", TRUE,
                             [results |-> memory_ctx.results, count |-> memory_ctx.count,
                              best_distance |-> memory_ctx.best_distance],
                             IF memory_ctx.best_distance = NoDistance THEN 60
                             ELSE Max(10, 100 - memory_ctx.best_distance), 0, "None")
    IN  IF memory_ctx.count > 0 THEN <<first, second>> ELSE <<first>>

SyntheticResearch(memory_ctx) ==
    LET memory_trace == MemoryTraces(memory_ctx)[Len(MemoryTraces(memory_ctx))]
    IN  TaskResult("research_agent", TRUE,
                   [research_results |-> ResearchResults("memory", {}, FALSE, memory_ctx.results,
                                                         memory_ctx.best_distance),
                    limitation_detected |-> FALSE],
                   IF memory_ctx.count > 0 THEN memory_trace.confidence ELSE 50, 0, "None")

Put(dict, key, value) == (key :> value) @@ dict

(***************************************************************************)
(* CoordinatorAgent._generate_detailed_answer and _synthesize_response     *)
(***************************************************************************)
Answer(parts, occurs, embedded) == [parts |-> parts, occurs |-> occurs, embedded |-> embedded]

ResearchSection(research_results) ==
    IF research_results.source = "memory"
    THEN Answer(<<"research_header", "memory_reuse">>,
                TextOccurs["research_header"] \cup TextOccurs["memory_reuse"]
                \cup UNION {research_results.hits[i].occurs : i \in DOMAIN research_results.hits},
                UNION {research_results.hits[i].embedded : i \in DOMAIN research_results.hits})
    ELSE LET topics == SelectSeq(<<"neural_networks", "machine_learning", "transformers">>,
                                 LAMBDA t : t \in research_results.topics)
         IN  Answer(<<"research_header">> \o [i \in DOMAIN topics |-> "topic_" \o topics[i]],
                    TextOccurs["research_header"]
                    \cup UNION {TextOccurs["topic_" \o topics[i]] : i \in DOMAIN topics},
                    {})

\* the answer built without looking at the limitation flag of the research result
generate_detailed_answer_without_limitation(q, agent_results) ==
    LET has(agent)  == agent \in DOMAIN agent_results
        research    == IF has("research_agent")
                       THEN ResearchSection(agent_results["research_agent"].data.research_results)
                       ELSE Answer(<< >>, {}, {})
        kind        == "analysis_" \o agent_results["analysis_agent"].data.analysis.kind
        analysis    == IF has("analysis_agent")
                       THEN Answer(<<kind>>, TextOccurs[kind], {})
                       ELSE Answer(<< >>, {}, {})
        memory_data == agent_results["memory_agent"].data
        memory      == IF has("memory_agent") /\ "results" \in DOMAIN memory_data
                          /\ memory_data.results # << >>
                       THEN Answer(<<"previous_context">>, TextOccurs["previous_context"], {})
                       ELSE Answer(<< >>, {}, {})
        parts       == research.parts \o analysis.parts \o memory.parts
    IN  IF parts # << >>
        THEN Answer(parts, research.occurs \cup analysis.occurs \cup memory.occurs,
                    research.embedded \cup analysis.embedded \cup memory.embedded)
        ELSE Answer(<<"fallback">>, TextOccurs["fallback"], {})

generate_detailed_answer(q, agent_results) ==
    LET has(agent)  == agent \in DOMAIN agent_results
        research    == IF has("research_agent")
                       THEN ResearchSection(agent_results["research_agent"].data.research_results)
                       ELSE Answer(<< >>, {}, {})
        kind        == "analysis_" \o agent_results["analysis_agent"].data.analysis.kind
        analysis    == IF has("analysis_agent")
                       THEN Answer(<<kind>>, TextOccurs[kind], {})
                       ELSE Answer(<< >>, {}, {})
        memory_data == agent_results["memory_agent"].data
        memory      == IF has("memory_agent") /\ "results" \in DOMAIN memory_data
                          /\ memory_data.results # << >>
                       THEN Answer(<<"previous_context">>, TextOccurs["previous_context"], {})
                       ELSE Answer(<< >>, {}, {})
        parts       == research.parts \o analysis.parts \o memory.parts
    IN  IF has("research_agent") /\ agent_results["research_agent"].data.limitation_detected
        THEN Answer(<<"limitation">>, TextOccurs["limitation"] \cup Occurs(q), {lower(q)})
        ELSE IF parts # << >>
        THEN Answer(parts, research.occurs \cup analysis.occurs \cup memory.occurs,
                    research.embedded \cup analysis.embedded \cup memory.embedded)
        ELSE Answer(<<"fallback">>, TextOccurs["fallback"], {})

\* the keys of agent_results in insertion order
AgentsUsed(rs) ==
    LET successful == SelectSeq(rs, LAMBDA r : r.success)
        firsts     == SelectSeq([i \in DOMAIN successful |-> i],
                                LAMBDA i : \A j \in 1..(i - 1) : successful[j].agent_id # successful[i].agent_id)
    IN  [k \in DOMAIN firsts |-> successful[firsts[k]].agent_id]

\* agent_results[agent] is the entry of the last successful result of the agent
AgentResults(rs) ==
    LET successful == SelectSeq(rs, LAMBDA r : r.success)
        last(agent) == CHOOSE i \in DOMAIN successful :
                           /\ successful[i].agent_id = agent
                           /\ \A j \in (i + 1)..Len(successful) : successful[j].agent_id # agent
    IN  [agent \in Range(AgentsUsed(rs)) |->
            [data |-> successful[last(agent)].data, confidence |-> successful[last(agent)].confidence,
             execution_time |-> successful[last(agent)].execution_time]]

RECURSIVE TotalConfidence(_)
TotalConfidence(rs) ==
    IF rs = << >> THEN 0
    ELSE (IF Head(rs).success THEN Head(rs).confidence ELSE 0) + TotalConfidence(Tail(rs))

SuccessfulAgents(rs) == Len(SelectSeq(rs, LAMBDA r : r.success))

TraceEntry(result) ==
    IF result.success
    THEN [agent |-> result.agent_id, success |-> TRUE, execution_time |-> result.execution_time]
    ELSE [agent |-> result.agent_id, success |-> FALSE, error |-> result.error]

\* the mean taken over every result instead of the successful ones
Confidence_over_all(rs) ==
    IF SuccessfulAgents(rs) > 0
    THEN [num |-> TotalConfidence(rs), den |-> Len(rs)]
    ELSE [num |-> 0, den |-> 1]

\* confidence is the fraction num / den
Confidence(rs) ==
    IF SuccessfulAgents(rs) > 0
    THEN [num |-> TotalConfidence(rs), den |-> SuccessfulAgents(rs)]
    ELSE [num |-> 0, den |-> 1]

\* the trace built from the successful results only
synthesize_response_skipping_failures(q, rs) ==
    [query |-> q,
     success |-> \A i \in DOMAIN rs : rs[i].success,
     agent_results |-> AgentResults(rs),
     agents_used |-> AgentsUsed(rs),
     synthesized_answer |-> generate_detailed_answer(q, AgentResults(rs)),
     confidence |-> Confidence(rs),
     execution_trace |-> LET ok == SelectSeq(rs, LAMBDA r : r.success)
                         IN  [i \in DOMAIN ok |-> TraceEntry(ok[i])]]

synthesize_response(q, rs) ==
    [query |-> q,
     success |-> \A i \in DOMAIN rs : rs[i].success,
     agent_results |-> AgentResults(rs),
     agents_used |-> AgentsUsed(rs),
     synthesized_answer |-> generate_detailed_answer(q, AgentResults(rs)),
     confidence |-> Confidence(rs),
     execution_trace |-> [i \in DOMAIN rs |-> TraceEntry(rs[i])]]

(***************************************************************************)
(* CoordinatorAgent._store_interaction: the message sent to the Memory     *)
(* worker.                                                                 *)
(***************************************************************************)
InteractionMessage(q, response) ==
    AgentMessage("coordinator", "memory_agent", q,
                 [data |-> [query |-> q, response |-> response.synthesized_answer,
                            agents_used |-> response.agents_used,
                            confidence |-> response.confidence],
                  memory_type |-> "conversation", source |-> "coordinator",
                  raw_answer |-> response.synthesized_answer])
(***************************************************************************)
(* Inputs.                                                                 *)
(***************************************************************************)
Queries == {QReuse, QWeather, QFind, QCompare, QStore, QEarlier, QGet}

NoteData(note) == [topic |-> "transformers", note |-> note]

MemoryMessages ==
    {AgentMessage("tester", "memory_agent", Note1, [memory_type |-> "conversation", data |-> NoteData(Note1)]),
     AgentMessage("tester", "memory_agent", Note2, [memory_type |-> "conversation", data |-> NoteData(Note2)]),
     AgentMessage("tester", "memory_agent", Note1, [memory_type |-> "knowledge", data |-> NoteData(Note1)])}

AnalysisMessages ==
    {AgentMessage("tester", "analysis_agent", QCompare,
                  [data |-> [research_results |->
                                ResearchResults("None", {"neural_networks", "transformers"}, FALSE, << >>, NoDistance)]]),
     AgentMessage("tester", "analysis_agent", QCompare,
                  [data |-> [research_results |-> ResearchResults("list", {}, FALSE, << >>, NoDistance)]])}

\* what json.loads returns for the replies of the planning LLM
LLMPlans ==
    {Plan("object", "moderate", <<"research_agent", "analysis_agent">>, <<"research", "analysis">>, TRUE),
     Plan("object", "simple", <<"agent1">>, <<"step1", "step2">>, TRUE),
     Plan("object", "simple", <<"research_agent">>, << >>, FALSE),
     Plan("array", "None", << >>, << >>, FALSE)}

(***************************************************************************)
(* State.                                                                  *)
(***************************************************************************)
VARIABLES
    groq_client,               \* whether the Coordinator has an LLM client
    conversation_collection,   \* Chroma collection "conversations"
    conversation_metadata,     \* MemoryAgent.conversation_metadata
    conversation_metadata_file,\* what conversation_metadata.json holds
    knowledge_collection,      \* Chroma collection "knowledge"
    knowledge_metadata,        \* MemoryAgent.knowledge_metadata
    agent_state_collection,    \* Chroma collection "agent_states"
    pc,                        \* where process_user_query is
    query,                     \* its argument
    task_plan,                 \* step 1
    memory_context,            \* step 2
    accumulated_data,          \* _execute_task_plan: the running context
    results,                   \* _execute_task_plan: the TaskResults so far
    step,                      \* _execute_task_plan: index of the next step
    final_response,            \* step 4
    invocations,               \* the process_task calls this query has made, in order
    records_before,            \* number of conversation records when the query started
    repeated,                  \* the query is the one of the call that returned just before
    task_result,               \* the TaskResult of the last direct call of a worker
    suspended,                 \* the process_user_query calls waiting at an await
    second_conversation_metadata  \* conversation_metadata of a second MemoryAgent on the same directory

store_vars == <<conversation_collection, conversation_metadata, conversation_metadata_file,
                knowledge_collection, knowledge_metadata, agent_state_collection>>

call_vars == <<pc, query, task_plan, memory_context, accumulated_data, results, step,
               final_response, invocations, records_before, repeated>>

vars == <<groq_client, store_vars, call_vars, task_result, suspended, second_conversation_metadata>>

Store ==
    [conversation_collection |-> conversation_collection,
     conversation_metadata   |-> conversation_metadata,
     conversation_metadata_file |-> conversation_metadata_file,
     knowledge_collection    |-> knowledge_collection,
     knowledge_metadata      |-> knowledge_metadata,
     agent_state_collection  |-> agent_state_collection]

SetStore(s) ==
    /\ conversation_collection' = s.conversation_collection
    /\ conversation_metadata'   = s.conversation_metadata
    /\ conversation_metadata_file' = s.conversation_metadata_file
    /\ knowledge_collection'    = s.knowledge_collection
    /\ knowledge_metadata'      = s.knowledge_metadata
    /\ agent_state_collection'  = s.agent_state_collection

\* a clock that ticks once for two Stores
Now_ticking_slowly == 1 + Len(conversation_collection) \div 2

\* datetime.now(): later than every timestamp stored so far
Now ==
    1 + Len(conversation_collection)
      + Cardinality({id \in DOMAIN conversation_metadata : id.timestamp > Len(conversation_collection)})

NoPlan == Plan("None", "None", << >>, << >>, FALSE)

NoContext == [results |-> << >>, count |-> 0, best_distance |-> NoDistance]

NoResult == TaskResult("None", FALSE, EmptyDict, 0, 0, "None")

NoResponse ==
    [query |-> << >>, success |-> TRUE, agent_results |-> EmptyDict, agents_used |-> << >>,
     synthesized_answer |-> [parts |-> << >>, occurs |-> {}, embedded |-> {}],
     confidence |-> [num |-> 0, den |-> 1], execution_trace |-> << >>]

Quiet == {"idle", "returned", "raised"}

\* one entry of the log of process_task calls
Invocation(result, operation) ==
    [agent_id |-> result.agent_id, operation |-> operation, success |-> result.success]

ClearCall ==
    /\ pc' = "idle"
    /\ query' = << >>
    /\ task_plan' = NoPlan
    /\ memory_context' = NoContext
    /\ accumulated_data' = EmptyDict
    /\ results' = << >>
    /\ step' = 0
    /\ final_response' = NoResponse
    /\ invocations' = << >>
    /\ records_before' = 0
    /\ repeated' = FALSE

Init ==
    /\ groq_client \in BOOLEAN
    /\ conversation_collection = << >>
    /\ conversation_metadata = EmptyDict
    /\ conversation_metadata_file = EmptyDict
    /\ suspended = << >>
    /\ second_conversation_metadata = EmptyDict
    /\ knowledge_collection = << >>
    /\ knowledge_metadata = EmptyDict
    /\ agent_state_collection = << >>
    /\ pc = "idle"
    /\ query = << >>
    /\ task_plan = NoPlan
    /\ memory_context = NoContext
    /\ accumulated_data = EmptyDict
    /\ results = << >>
    /\ step = 0
    /\ final_response = NoResponse
    /\ invocations = << >>
    /\ records_before = 0
    /\ repeated = FALSE
    /\ task_result = NoResult

(***************************************************************************)
(* process_user_query, step 1: _analyze_query_complexity.  With an LLM     *)
(* client the plan is what json.loads makes of the reply; the call raising *)
(* and an unparsable reply give the rule-based plan.                       *)
(***************************************************************************)
PossiblePlans(q) ==
    {rule_based_analyze_complexity(q)} \cup (IF groq_client THEN LLMPlans ELSE {})

\* how many times the pipeline of q sends the Memory worker a message that ends up in a Store
StoreCalls(q, plan) ==
    LET retrievals == Len(SelectSeq(plan.execution_order, LAMBDA name : name = "memory_retrieval"))
        fetch      == MemoryContextMessage(q)
        task       == AgentMessage("coordinator", "memory_agent", q, EmptyDict)
    IN  Len(SelectSeq(<<fetch>> \o [i \in 1..retrievals |-> task] \o <<task>>,
                      LAMBDA message : Operation(message) = "store"))

\* an upper bound of the Stores that the waiting calls have still to issue
PendingStores ==
    Cardinality({<<i, k>> \in (DOMAIN suspended) \X (1..MaxRecords) :
                    k <= StoreCalls(suspended[i].query, suspended[i].task_plan)})

AnalyzeQueryComplexity(q) ==
    /\ pc \in Quiet
    /\ Len(suspended) < MaxCalls
    /\ \E plan \in PossiblePlans(q) :
          /\ Len(conversation_collection) + StoreCalls(q, plan) + PendingStores
                <= MaxRecords * (1 + Len(suspended))
          /\ task_plan' = plan
    /\ pc' = "planned"
    /\ query' = q
    /\ memory_context' = NoContext
    /\ accumulated_data' = EmptyDict
    /\ results' = << >>
    /\ step' = 0
    /\ final_response' = NoResponse
    /\ invocations' = << >>
    /\ records_before' = Len(conversation_collection)
    /\ repeated' = (pc = "returned" /\ q = query)
    /\ task_result' = NoResult
    /\ UNCHANGED <<groq_client, second_conversation_metadata, suspended, store_vars>>

(***************************************************************************)
(* step 2: _get_memory_context                                             *)
(***************************************************************************)
GetMemoryContext ==
    /\ pc = "planned"
    /\ \E message \in {MemoryContextMessage(query)} :
          \E operation \in {Operation(message)} :
             \E env \in Envs(operation, Store) :
                \E call \in {MemoryProcessTask(message, Store, Now, env)} :
                   /\ memory_context' = normalize_memory_context(IF call.result.success
                                                                 THEN call.result.data
                                                                 ELSE EmptyDict)
                   /\ SetStore(call.store)
                   /\ invocations' = Append(invocations, Invocation(call.result, operation))
    /\ pc' = "fetched"
    /\ UNCHANGED <<groq_client, second_conversation_metadata, suspended, query, task_plan, accumulated_data, results, step,
                   final_response, records_before, repeated, task_result>>

(***************************************************************************)
(* step 3: _execute_task_plan.  BeginExecute is the part before the loop   *)
(* and the evaluation of task_plan.get("execution_order", []), which       *)
(* raises when the plan is not a dict or the order is not iterable;        *)
(* ExecuteStep is one iteration of the loop.                               *)
(***************************************************************************)
BeginExecute ==
    /\ pc = "fetched"
    /\ IF task_plan.json = "object" /\ task_plan.order_is_list
       THEN /\ pc' = "executing"
            /\ results' = MemoryTraces(memory_context)
            /\ accumulated_data' = [memory_context |-> memory_context]
            /\ step' = 1
       ELSE /\ pc' = "raised"
            /\ UNCHANGED <<results, accumulated_data, step>>
    /\ UNCHANGED <<groq_client, second_conversation_metadata, suspended, store_vars, query, task_plan, memory_context, final_response,
                   invocations, records_before, repeated, task_result>>

\* research with the failed result's data put into the running context all the same
ExecuteResearch_keeping_failed_data ==
    IF SkipResearch(memory_context)
    THEN \E synthetic \in {SyntheticResearch(memory_context)} :
            /\ results' = Append(results, synthetic)
            /\ accumulated_data' = Put(accumulated_data, "research_results",
                                       synthetic.data.research_results)
            /\ UNCHANGED <<invocations, store_vars>>
    ELSE \E result \in {ResearchProcessTask(AgentMessage("coordinator", "research_agent", query,
                                                         accumulated_data))} :
            /\ results' = Append(results, result)
            /\ accumulated_data' = Put(accumulated_data, "research_results",
                                       result.data.research_results)
            /\ invocations' = Append(invocations, Invocation(result, "process_task"))
            /\ UNCHANGED store_vars

ExecuteResearch ==
    IF SkipResearch(memory_context)
    THEN \E synthetic \in {SyntheticResearch(memory_context)} :
            /\ results' = Append(results, synthetic)
            /\ accumulated_data' = Put(accumulated_data, "research_results",
                                       synthetic.data.research_results)
            /\ UNCHANGED <<invocations, store_vars>>
    ELSE \E result \in {ResearchProcessTask(AgentMessage("coordinator", "research_agent", query,
                                                         accumulated_data))} :
            /\ results' = Append(results, result)
            /\ accumulated_data' = IF result.success
                                   THEN Put(accumulated_data, "research_results",
                                            result.data.research_results)
                                   ELSE accumulated_data
            /\ invocations' = Append(invocations, Invocation(result, "process_task"))
            /\ UNCHANGED store_vars

ExecuteAnalysis ==
    \E result \in {AnalysisProcessTask(AgentMessage("coordinator", "analysis_agent", query,
                                                    [data |-> accumulated_data]))} :
       /\ results' = Append(results, result)
       /\ accumulated_data' = IF result.success
                              THEN Put(accumulated_data, "analysis_results", result.data)
                              ELSE accumulated_data
       /\ invocations' = Append(invocations, Invocation(result, "process_task"))
       /\ UNCHANGED store_vars

ExecuteMemoryRetrieval ==
    \E message \in {AgentMessage("coordinator", "memory_agent", query, accumulated_data)} :
       \E operation \in {Operation(message)} :
          \E env \in Envs(operation, Store) :
             \E call \in {MemoryProcessTask(message, Store, Now, env)} :
                /\ results' = Append(results, call.result)
                /\ accumulated_data' = IF call.result.success
                                       THEN Put(accumulated_data, "memory_results", call.result.data)
                                       ELSE accumulated_data
                /\ invocations' = Append(invocations, Invocation(call.result, operation))
                /\ SetStore(call.store)

ExecuteStep ==
    /\ pc = "executing"
    /\ step <= Len(task_plan.execution_order)
    /\ \E name \in {task_plan.execution_order[step]} :
          IF name = "research" THEN ExecuteResearch
          ELSE IF name = "analysis" THEN ExecuteAnalysis
          ELSE IF name = "memory_retrieval" THEN ExecuteMemoryRetrieval
          ELSE UNCHANGED <<results, accumulated_data, invocations, store_vars>>
    /\ step' = step + 1
    /\ UNCHANGED <<groq_client, second_conversation_metadata, suspended, pc, query, task_plan, memory_context, final_response,
                   records_before, repeated, task_result>>

(***************************************************************************)
(* step 4: _synthesize_response                                            *)
(***************************************************************************)
SynthesizeResponse ==
    /\ pc = "executing"
    /\ step > Len(task_plan.execution_order)
    /\ final_response' = synthesize_response(query, results)
    /\ pc' = "synthesized"
    /\ UNCHANGED <<groq_client, second_conversation_metadata, suspended, store_vars, query, task_plan, memory_context, accumulated_data,
                   results, step, invocations, records_before, repeated, task_result>>

(***************************************************************************)
(* step 5: _store_interaction, after which process_user_query returns      *)
(***************************************************************************)
StoreInteraction ==
    /\ pc = "synthesized"
    /\ \E message \in {InteractionMessage(query, final_response)} :
          \E operation \in {Operation(message)} :
             \E env \in Envs(operation, Store) :
                \E call \in {MemoryProcessTask(message, Store, Now, env)} :
                   /\ SetStore(call.store)
                   /\ invocations' = Append(invocations, Invocation(call.result, operation))
    /\ pc' = "returned"
    /\ UNCHANGED <<groq_client, second_conversation_metadata, suspended, query, task_plan, memory_context, accumulated_data, results, step,
                   final_response, records_before, repeated, task_result>>

(***************************************************************************)
(* Calls of process_user_query running concurrently on the event loop: at  *)
(* an await the running call may be put aside, and a call put aside        *)
(* continues when the loop is free.                                        *)
(***************************************************************************)
Frame ==
    [pc |-> pc, query |-> query, task_plan |-> task_plan, memory_context |-> memory_context,
     accumulated_data |-> accumulated_data, results |-> results, step |-> step,
     final_response |-> final_response, invocations |-> invocations,
     records_before |-> records_before, repeated |-> repeated]

Suspend ==
    /\ pc \notin Quiet
    /\ suspended' = Append(suspended, Frame)
    /\ ClearCall
    /\ UNCHANGED <<groq_client, second_conversation_metadata, store_vars, task_result>>

Resume(i) ==
    /\ pc \in Quiet
    /\ pc' = suspended[i].pc
    /\ query' = suspended[i].query
    /\ task_plan' = suspended[i].task_plan
    /\ memory_context' = suspended[i].memory_context
    /\ accumulated_data' = suspended[i].accumulated_data
    /\ results' = suspended[i].results
    /\ step' = suspended[i].step
    /\ final_response' = suspended[i].final_response
    /\ invocations' = suspended[i].invocations
    /\ records_before' = suspended[i].records_before
    /\ repeated' = suspended[i].repeated
    /\ suspended' = SubSeq(suspended, 1, i - 1) \o SubSeq(suspended, i + 1, Len(suspended))
    /\ UNCHANGED <<groq_client, second_conversation_metadata, store_vars, task_result>>

(***************************************************************************)
(* Direct calls of the workers' process_task, between queries.             *)
(***************************************************************************)
MemoryTask(message) ==
    /\ pc \in Quiet
    /\ \E operation \in {Operation(message)} :
          /\ operation = "store" => Len(conversation_collection) < MaxRecords
          /\ \E env \in Envs(operation, Store) :
                \E call \in {MemoryProcessTask(message, Store, Now, env)} :
                   /\ task_result' = call.result
                   /\ SetStore(call.store)
    /\ ClearCall
    /\ UNCHANGED <<groq_client, second_conversation_metadata, suspended>>

AnalysisTask(message) ==
    /\ pc \in Quiet
    /\ task_result' = AnalysisProcessTask(message)
    /\ ClearCall
    /\ UNCHANGED <<groq_client, second_conversation_metadata, suspended, store_vars>>

ResearchTask(q) ==
    /\ pc \in Quiet
    /\ task_result' = ResearchProcessTask(AgentMessage("tester", "research_agent", q, EmptyDict))
    /\ ClearCall
    /\ UNCHANGED <<groq_client, second_conversation_metadata, suspended, store_vars>>

Next ==
    \/ \E q \in Queries : AnalyzeQueryComplexity(q)
    \/ GetMemoryContext
    \/ BeginExecute
    \/ ExecuteStep
    \/ SynthesizeResponse
    \/ StoreInteraction
    \/ \E message \in MemoryMessages : MemoryTask(message)
    \/ \E message \in AnalysisMessages : AnalysisTask(message)
    \/ \E q \in Queries : ResearchTask(q)

Spec == Init /\ [][Next]_vars

(***************************************************************************)
(* The rule-based planner alone, on every query of at most MaxPlanLen      *)
(* words of PlanVocab.                                                     *)
(***************************************************************************)
PlanVocab ==
    {"Research", "find", "compare", "best", "remember", "what", "did", "earlier", "transformer", "store"}

PlanQueries == UNION {[1..n -> PlanVocab] : n \in 1..MaxPlanLen}

Blank ==
    /\ conversation_collection = << >>
    /\ conversation_metadata = EmptyDict
    /\ conversation_metadata_file = EmptyDict
    /\ suspended = << >>
    /\ second_conversation_metadata = EmptyDict
    /\ knowledge_collection = << >>
    /\ knowledge_metadata = EmptyDict
    /\ agent_state_collection = << >>
    /\ memory_context = NoContext
    /\ accumulated_data = EmptyDict
    /\ step = 0
    /\ final_response = NoResponse
    /\ invocations = << >>
    /\ records_before = 0
    /\ repeated = FALSE
    /\ task_result = NoResult

InitPlan ==
    /\ Blank
    /\ groq_client = FALSE
    /\ pc = "idle"
    /\ query \in PlanQueries \cup Queries \cup {QRemember}
    /\ task_plan = NoPlan
    /\ results = << >>

RuleBasedAnalyzeComplexity ==
    /\ pc = "idle"
    /\ task_plan' = rule_based_analyze_complexity(query)
    /\ pc' = "planned"
    /\ UNCHANGED <<groq_client, second_conversation_metadata, suspended, store_vars, query, memory_context, accumulated_data, results, step,
                   final_response, invocations, records_before, repeated, task_result>>

NextPlan == RuleBasedAnalyzeComplexity

SpecPlan == InitPlan /\ [][NextPlan]_vars

(***************************************************************************)
(* _synthesize_response alone, on every list of at most MaxResults of the  *)
(* sample TaskResults.                                                     *)
(***************************************************************************)
MaxResults == 3

SampleResults ==
    <<MemoryTraces(NoContext)[1],
      ResearchProcessTask(AgentMessage("coordinator", "research_agent", QCompare, EmptyDict)),
      ResearchProcessTask(AgentMessage("coordinator", "research_agent", QFind, EmptyDict)),
      AnalysisProcessTask(AgentMessage("coordinator", "analysis_agent", QCompare, [data |-> EmptyDict])),
      TaskResult("memory_agent", FALSE, EmptyDict, 0, Elapsed, "collection.get failed")>>

ResultLists ==
    UNION {{[i \in 1..n |-> SampleResults[pick[i]]] : pick \in [1..n -> DOMAIN SampleResults]} : n \in 0..MaxResults}

InitSynth ==
    /\ Blank
    /\ groq_client = FALSE
    /\ pc = "executing"
    /\ query = QCompare
    /\ task_plan = NoPlan
    /\ results \in ResultLists

SynthesizeResults ==
    /\ pc = "executing"
    /\ final_response' = synthesize_response(query, results)
    /\ pc' = "synthesized"
    /\ UNCHANGED <<groq_client, second_conversation_metadata, suspended, store_vars, query, task_plan, memory_context, accumulated_data,
                   results, step, invocations, records_before, repeated, task_result>>

NextSynth == SynthesizeResults

SpecSynth == InitSynth /\ [][NextSynth]_vars

(***************************************************************************)
(* Properties.                                                             *)
(***************************************************************************)
QueryReturned == pc = "returned"

\* the conversation records, present when the query started, in which at least two of the
\* query's meaningful words occur
RelevantRecords ==
    {i \in 1..records_before :
        Cardinality({w \in Range(MeaningfulWords(query)) :
                        w \in conversation_collection[i].document.occurs}) >= 2}

HasResearchStep == "research" \in Range(task_plan.execution_order)

ResearchInvoked == \E i \in DOMAIN invocations : invocations[i].agent_id = "research_agent"

ResearchFromMemory ==
    /\ \E i \in DOMAIN results : results[i].agent_id = "research_agent"
    /\ \A i \in DOMAIN results :
          results[i].agent_id = "research_agent"
              => /\ results[i].success
                 /\ results[i].execution_time = 0
                 /\ results[i].data.research_results.source = "memory"

\* C1: when the conversation partition holds at least two records relevant to the topic of a
\* query with a research step, the returned call has a research result with execution_time 0
\* and research_results.source "memory" and has not invoked the Retrieval Worker; against an
\* empty store the Retrieval Worker is invoked.
C1_ReuseAcrossQueries ==
    (QueryReturned /\ HasResearchStep)
        => /\ Cardinality(RelevantRecords) >= 2 => (ResearchFromMemory /\ ~ResearchInvoked)
           /\ records_before = 0 => ResearchInvoked

\* the conversation records added by the call that hold its interaction
InteractionRecords ==
    {i \in (records_before + 1)..Len(conversation_collection) :
        LET entry == conversation_collection[i]
        IN  /\ entry.metadata.source = "coordinator"
            /\ entry.id \in DOMAIN conversation_metadata
            /\ LET data == conversation_metadata[entry.id].data
               IN  /\ "query" \in DOMAIN data
                   /\ data.query = query
                   /\ data.response = final_response.synthesized_answer
                   /\ data.agents_used = final_response.agents_used
                   /\ data.confidence = final_response.confidence}

\* C2: when process_user_query returns, the conversation partition holds one new record of
\* the call, tagged source "coordinator", with the query, the synthesized answer, the
\* contributing agent ids and the overall confidence.
C2_InteractionPersisted == QueryReturned => Cardinality(InteractionRecords) = 1

\* C3: the first Memory call of every query, the fetch of the memory context, is a Search of
\* the conversation partition with limit 5, whatever the words of the query.
C3_FetchIsSearch ==
    invocations # << >>
        => /\ invocations[1].agent_id = "memory_agent"
           /\ invocations[1].operation = "search"
           /\ MemoryContextMessage(query).metadata.memory_type = "conversation"
           /\ MemoryContextMessage(query).metadata.limit = 5

\* C4: the memory-context fetch of a call that repeats the query of the call that returned
\* just before it retrieves at least one record.
C4_FeedbackLoop == (repeated /\ pc = "fetched") => memory_context.count >= 1

\* C5: process_user_query never raises; a returned response has the fields query, success,
\* agent_results, synthesized_answer, confidence and execution_trace.
C5_NeverRaises ==
    /\ pc # "raised"
    /\ QueryReturned => {"query", "success", "agent_results", "synthesized_answer", "confidence",
                     "execution_trace"} \subseteq DOMAIN final_response

\* C6: the execution trace has one entry per TaskResult of the plan execution, in the same
\* order, with the result's agent and success and its execution_time on success or its
\* error on failure, and its first entry is the memory entry.
C6_TraceMatchesResults ==
    pc \in {"synthesized", "returned"}
        => LET trace == final_response.execution_trace
           IN  /\ Len(trace) = Len(results)
               /\ \A i \in DOMAIN results :
                     /\ trace[i].agent = results[i].agent_id
                     /\ trace[i].success = results[i].success
                     /\ IF results[i].success
                        THEN /\ DOMAIN trace[i] = {"agent", "success", "execution_time"}
                             /\ trace[i].execution_time = results[i].execution_time
                        ELSE /\ DOMAIN trace[i] = {"agent", "success", "error"}
                             /\ trace[i].error = results[i].error
               /\ Len(trace) >= 1
               /\ trace[1].agent = "memory_agent"

C6_Witness ==
    /\ QueryReturned
    /\ Len(results) >= 3
    /\ \E i \in DOMAIN results : ~results[i].success
    /\ \E i \in DOMAIN results : results[i].success /\ results[i].execution_time > 0

Position(order, name) == CHOOSE i \in DOMAIN order : order[i] = name

AnalysisOnly(q) == NeedsAnalysis(lower(q)) /\ ~NeedsResearch(lower(q))

\* C7: the rule-based plan of a query with an analysis-indicating word and no
\* research-indicating word has research and analysis in its execution_order, research
\* first, also when memory_retrieval is added.
C7_ResearchBeforeAnalysis ==
    (pc = "planned" /\ AnalysisOnly(query))
        => LET order == task_plan.execution_order
           IN  /\ "research" \in Range(order)
               /\ "analysis" \in Range(order)
               /\ Position(order, "research") < Position(order, "analysis")

C7_Witness ==
    /\ pc = "planned"
    /\ AnalysisOnly(query)
    /\ NeedsMemory(lower(query))
    /\ task_plan.execution_order = <<"memory_retrieval", "research", "analysis">>

Successful(rs) == {i \in DOMAIN rs : rs[i].success}

RECURSIVE SumOfConfidences(_, _)
SumOfConfidences(rs, indices) ==
    IF indices = {} THEN 0
    ELSE LET i == CHOOSE j \in indices : TRUE
         IN  rs[i].confidence + SumOfConfidences(rs, indices \ {i})

\* C8: the response's success is the conjunction of the results' success, and its confidence
\* is the mean of the confidences of the successful results, 0 when there is none.
C8_SuccessAndConfidence ==
    pc = "synthesized"
        => /\ final_response.success = (\A i \in DOMAIN results : results[i].success)
           /\ final_response.confidence.den > 0
           /\ IF Successful(results) = {}
              THEN final_response.confidence.num = 0
              ELSE final_response.confidence.num * Cardinality(Successful(results))
                      = SumOfConfidences(results, Successful(results)) * final_response.confidence.den

C8_Witness ==
    /\ pc = "synthesized"
    /\ Cardinality(Successful(results)) = 2
    /\ Len(results) = 3
    /\ \E i, j \in Successful(results) : results[i].confidence # results[j].confidence

\* the process_task calls made before the response was synthesized
ResponseInvocations ==
    IF QueryReturned THEN SubSeq(invocations, 1, Len(invocations) - 1) ELSE invocations

AllInvocationsFailed ==
    /\ pc \in {"synthesized", "returned"}
    /\ ResponseInvocations # << >>
    /\ \A i \in DOMAIN ResponseInvocations : ~ResponseInvocations[i].success

FallbackAnswer == final_response.synthesized_answer.parts = <<"fallback">>

\* C9 as stated: when every worker invocation of a query fails, the response has the fallback
\* sentence and confidence 0.0.
C9_AllFailedZeroConfidence ==
    AllInvocationsFailed => (FallbackAnswer /\ final_response.confidence.num = 0)

\* C9: when every worker invocation of a query fails, the response has the fallback sentence
\* and the confidence 0.3 of the memory result the Coordinator records itself.
C9_AllFailedFallback ==
    AllInvocationsFailed => (FallbackAnswer /\ final_response.confidence = [num |-> 30, den |-> 1])

C9_Witness ==
    /\ QueryReturned
    /\ AllInvocationsFailed
    /\ \E i \in DOMAIN ResponseInvocations : ResponseInvocations[i].agent_id = "research_agent"
    /\ ~final_response.success

ReportsFailure(result) ==
    result.error # "None" => (~result.success /\ result.confidence = 0)

\* C10: a process_task whose task logic raised returns a TaskResult with success false,
\* confidence 0.0 and the exception text as error.
C10_FailuresReported ==
    /\ ReportsFailure(task_result)
    /\ \A i \in DOMAIN results : ReportsFailure(results[i])

C10_Witness ==
    /\ task_result.agent_id = "memory_agent"
    /\ task_result.error = "'MemoryAgent' object has no attribute '_cheap_embed'"
    /\ ~task_result.success

(***************************************************************************)
(* The Memory worker on its own: process_task called with Store, Retrieve, *)
(* Search and general requests, and the Coordinator's normalization of     *)
(* what it returns.                                                        *)
(***************************************************************************)
StoreMessages ==
    MemoryMessages
    \cup {AgentMessage("tester", "memory_agent", Note1,
                        [memory_type |-> "agent_state", data |-> NoteData(Note1)]),
          AgentMessage("tester", "memory_agent", Note1,
                        [memory_type |-> "scratch", data |-> NoteData(Note1)])}

\* Retrieve by an id the store has handed out, and Retrieve of the most recent records
RetrieveMessages ==
    {AgentMessage("tester", "memory_agent", QGet, [memory_id |-> id, memory_type |-> memory_type]) :
        id \in DOMAIN conversation_metadata \cup DOMAIN knowledge_metadata,
        memory_type \in {"conversation", "knowledge"}}
    \cup {AgentMessage("tester", "memory_agent", QGet, [memory_type |-> memory_type]) :
            memory_type \in {"conversation", "knowledge"}}
    \cup {AgentMessage("tester", "memory_agent", QGet, [memory_type |-> "conversation", limit |-> 1])}

SearchMessages ==
    {AgentMessage("tester", "memory_agent", QCosts, [memory_type |-> "conversation"]),
     AgentMessage("tester", "memory_agent", QCosts,
                  [memory_type |-> "conversation", limit |-> 1, keywords |-> <<"costs">>]),
     AgentMessage("tester", "memory_agent", <<"find">>, [memory_type |-> "conversation", limit |-> 1]),
     AgentMessage("tester", "memory_agent", <<"find">>,
                  [memory_type |-> "conversation", limit |-> 1, topic |-> "costs",
                   keywords |-> <<"costs">>])}

GeneralMessages ==
    {AgentMessage("tester", "memory_agent", QRestore, EmptyDict),
     AgentMessage("tester", "memory_agent", QRemembered, EmptyDict)}

\* MemoryAgent.get_memory_stats
get_memory_stats ==
    [conversation_count |-> Cardinality(DOMAIN conversation_metadata),
     knowledge_count    |-> Cardinality(DOMAIN knowledge_metadata)]

\* _get_memory_context after the Memory worker has returned: raw and its normalization
NormalizeMemoryContext ==
    /\ pc \in Quiet
    /\ task_result.agent_id = "memory_agent"
    /\ memory_context' = normalize_memory_context(IF task_result.success THEN task_result.data
                                                  ELSE EmptyDict)
    /\ pc' = "fetched"
    /\ UNCHANGED <<groq_client, second_conversation_metadata, suspended, store_vars, query, task_plan, accumulated_data, results, step,
                   final_response, invocations, records_before, repeated, task_result>>

NextMemory ==
    \/ \E message \in StoreMessages : MemoryTask(message)
    \/ \E message \in RetrieveMessages : MemoryTask(message)
    \/ \E message \in SearchMessages : MemoryTask(message)
    \/ \E message \in GeneralMessages : MemoryTask(message)
    \/ NormalizeMemoryContext

SpecMemory == Init /\ [][NextMemory]_vars

(***************************************************************************)
(* The plan execution under worker failures.                               *)
(***************************************************************************)
\* the worker of a step of execution_order
StepAgent(name) ==
    IF name = "research" THEN "research_agent"
    ELSE IF name = "analysis" THEN "analysis_agent"
    ELSE "memory_agent"

\* the steps of the plan that _execute_task_plan knows
KnownSteps == SelectSeq(task_plan.execution_order,
                        LAMBDA name : name \in {"research", "analysis", "memory_retrieval"})

\* the results of the steps, after the memory entries recorded before the loop
StepResults == SubSeq(results, Len(MemoryTraces(memory_context)) + 1, Len(results))

\* one iteration of the loop: the step is over, its result is appended, and a failed result
\* leaves the running context as it was
StepTaken ==
    /\ pc' = "executing"
    /\ step' = step + 1
    /\ task_plan.execution_order[step] \in Range(KnownSteps)
          => /\ Len(results') = Len(results) + 1
             /\ results'[Len(results')].agent_id = StepAgent(task_plan.execution_order[step])
             /\ ~results'[Len(results')].success => accumulated_data' = accumulated_data

\* C11: a worker failure never aborts the pipeline: every step of execution_order is executed
\* in order, a failed step leaves the running context unchanged and appears as a
\* success=false trace entry, and synthesis and the persisting of the interaction still run.
C11_NeverAborts ==
    /\ [][/\ pc = "executing" => (StepTaken \/ pc' = "synthesized")
          /\ pc = "synthesized" => pc' = "returned"]_vars
    /\ [](/\ pc = "executing" => ENABLED (ExecuteStep \/ SynthesizeResponse)
          /\ pc = "synthesized" => ENABLED StoreInteraction
          /\ pc \in {"synthesized", "returned"}
                => /\ Len(StepResults) = Len(KnownSteps)
                   /\ \A i \in DOMAIN KnownSteps :
                         /\ StepResults[i].agent_id = StepAgent(KnownSteps[i])
                         /\ ~StepResults[i].success
                               => ~final_response.execution_trace[
                                      Len(MemoryTraces(memory_context)) + i].success
          /\ QueryReturned
                => invocations[Len(invocations)].agent_id = "memory_agent")

C11_Witness ==
    /\ QueryReturned
    /\ Len(KnownSteps) >= 2
    /\ ~StepResults[1].success
    /\ StepResults[2].success
    /\ "research_results" \notin DOMAIN accumulated_data

(***************************************************************************)
(* Properties of the Memory worker.                                        *)
(***************************************************************************)
MemoryType(message) == Get(message.metadata, "memory_type", "conversation")

\* the result of a call in which a Chroma call or the writing of the metadata file raised
InjectedFault(result) ==
    result.error \in {"collection.add failed", "metadata file not written", "collection.get failed"}

\* the Retrieve of the record that a Store has returned the id of
RetrieveById(message, data) ==
    AgentMessage("tester", "memory_agent", QGet,
                 [memory_id |-> data.memory_id, memory_type |-> MemoryType(message)])

RoundTrip(message) ==
    /\ task_result'.success
    /\ "memory_id" \in DOMAIN task_result'.data
    /\ LET retrieved == retrieve_memory(RetrieveById(message, task_result'.data), Store')
       IN  /\ "memory" \in DOMAIN retrieved
           /\ retrieved.memory.content = message.content

RecordsKept ==
    /\ \A id \in DOMAIN conversation_metadata :
          /\ id \in DOMAIN conversation_metadata'
          /\ conversation_metadata'[id] = conversation_metadata[id]
    /\ \A id \in DOMAIN knowledge_metadata :
          /\ id \in DOMAIN knowledge_metadata'
          /\ knowledge_metadata'[id] = knowledge_metadata[id]
    /\ \A i \in DOMAIN conversation_collection :
          /\ i \in DOMAIN conversation_collection'
          /\ conversation_collection'[i] = conversation_collection[i]
    /\ \A i \in DOMAIN knowledge_collection :
          /\ i \in DOMAIN knowledge_collection'
          /\ knowledge_collection'[i] = knowledge_collection[i]

\* C12: a Store into the conversation or the knowledge partition returns a memory_id with
\* which a Retrieve of the same memory_type returns a record whose content is the content of
\* the stored message, also after any number of further Stores.
C12_RoundTrip ==
    [][/\ \A message \in StoreMessages :
             (/\ MemoryType(message) \in {"conversation", "knowledge"}
              /\ MemoryTask(message)
              /\ ~InjectedFault(task_result'))
                 => RoundTrip(message)
       /\ RecordsKept]_vars

\* C13: get_memory_stats counts the Stores: each Store with memory_type knowledge raises
\* knowledge_count by one and each Store with memory_type conversation raises
\* conversation_count by one, from 0 and 0 for the empty store.
C13_StatsCountStores ==
    /\ get_memory_stats = [conversation_count |-> 0, knowledge_count |-> 0]
    /\ [][\A message \in StoreMessages :
             (MemoryTask(message) /\ ~InjectedFault(task_result'))
                 => /\ get_memory_stats'.knowledge_count
                          = get_memory_stats.knowledge_count
                            + (IF MemoryType(message) = "knowledge" THEN 1 ELSE 0)
                    /\ get_memory_stats'.conversation_count
                          = get_memory_stats.conversation_count
                            + (IF MemoryType(message) = "conversation" THEN 1 ELSE 0)]_vars

\* the ids of the entries of a collection
Ids(collection) == {collection[i].id : i \in DOMAIN collection}

\* the Store has succeeded, returned an id and written the record of that id, and no other,
\* into the partition of the message
Stored(message) ==
    /\ task_result'.success
    /\ "memory_id" \in DOMAIN task_result'.data
    /\ task_result'.data.action = "stored"
    /\ LET id == task_result'.data.memory_id
       IN  IF MemoryType(message) = "conversation"
           THEN /\ Len(conversation_collection') = Len(conversation_collection) + 1
                /\ conversation_collection'[Len(conversation_collection')].id = id
                /\ id \notin DOMAIN conversation_metadata
                /\ DOMAIN conversation_metadata' = DOMAIN conversation_metadata \cup {id}
           ELSE IF MemoryType(message) = "knowledge"
           THEN /\ Len(knowledge_collection') = Len(knowledge_collection) + 1
                /\ knowledge_collection'[Len(knowledge_collection')].id = id
                /\ id \notin DOMAIN knowledge_metadata
                /\ DOMAIN knowledge_metadata' = DOMAIN knowledge_metadata \cup {id}
           ELSE /\ Len(agent_state_collection') = Len(agent_state_collection) + 1
                /\ agent_state_collection'[Len(agent_state_collection')].id = id

\* C14: a Store with memory_type conversation, knowledge or agent_state succeeds, writes one
\* record into the vector index and the metadata mirror of that partition and returns the
\* id of the record.
C14_StoreWritesOneRecord ==
    [][\A message \in StoreMessages :
          (MemoryTask(message) /\ ~InjectedFault(task_result')) => Stored(message)]_vars

\* C15: a Store whose vector-index write, metadata write or metadata flush fails reports
\* failure and leaves the record in neither mirror; in every state the ids of a partition's
\* metadata map are the ids of its vector index.
C15_StoreIsTransaction ==
    /\ [][\A message \in StoreMessages :
             (MemoryTask(message) /\ ~task_result'.success) => UNCHANGED store_vars]_vars
    /\ [](/\ DOMAIN conversation_metadata = Ids(conversation_collection)
          /\ DOMAIN knowledge_metadata = Ids(knowledge_collection))

TokenTier(message) ==
    TokenHits(conversation_collection, message.content, Get(message.metadata, "limit", 3),
              Get(message.metadata, "topic", "None"), Get(message.metadata, "keywords", << >>))

LiteralTier(message) == LiteralHits(conversation_collection, message.content)

\* C17: Search degrades through three tiers: when the vector query raises or gives no hit the
\* token scan runs, then the literal match; a Search returns no result only if the token
\* scan and the literal match find nothing.
C17_ThreeTiers ==
    [][\A message \in SearchMessages :
          (/\ MemoryTask(message)
           /\ task_result'.success
           /\ task_result'.data.count = 0)
              => (TokenTier(message) = << >> /\ LiteralTier(message) = << >>)]_vars

\* the keywords that route a request to the Store operation
StoreKeywords == {"store", "save", "remember"}

\* C18: Memory dispatch matches its keywords as whole words only: every record in the store
\* was stored for a request with store, save or remember as a word of its own.
C18_WholeWordDispatch ==
    \A id \in DOMAIN conversation_metadata :
        WholeWordsIn(lower(conversation_metadata[id].content)) \cap StoreKeywords # {}

(***************************************************************************)
(* Properties of the planning fallback and of the knowledge limitation.    *)
(***************************************************************************)
\* the plan is a JSON object of the shape {complexity, agents_needed, execution_order, reasoning}
WellShaped(plan) == plan.json = "object" /\ plan.order_is_list

\* C19: with an LLM client, whenever the planning call raises or its reply is not a JSON
\* object of the plan's shape, the plan executed is the rule-based plan of the query, and
\* process_user_query raises nothing.
C19_PlanningFallback ==
    (groq_client /\ pc # "idle")
        => /\ WellShaped(task_plan) \/ task_plan = rule_based_analyze_complexity(query)
           /\ pc # "raised"

\* Retrieval finds no topic for the query, by exact or by fuzzy matching, and the query has
\* no domain keyword
OutsideDomain(q) ==
    /\ DirectMatches(lower(q)) \cup FuzzyMatches(lower(q)) = {}
    /\ domain_keywords \cap SubstringsIn(lower(q)) = {}

\* the answer is the limitation message, and the one research result succeeded with 0.9
LimitationReported ==
    /\ final_response.synthesized_answer.parts = <<"limitation">>
    /\ \A i \in DOMAIN results :
          results[i].agent_id = "research_agent"
              => /\ results[i].success
                 /\ results[i].confidence = 90
                 /\ results[i].data.limitation_detected

LimitationCase ==
    /\ pc \in {"synthesized", "returned"}
    /\ OutsideDomain(query)
    /\ ResearchInvoked

\* C20 as stated: for a query outside the domain the research result has success true and
\* confidence 0.9, the answer is the limitation message only, and the response has success
\* true, whatever the other results contain.
C20_LimitationSucceeds ==
    LimitationCase => (LimitationReported /\ final_response.success)

\* C20: for a query outside the domain the research result has success true and confidence
\* 0.9 and the answer is the limitation message only, whatever the other results contain;
\* the response has success true exactly when no other step has failed.
C20_LimitationOnly ==
    LimitationCase
        => /\ LimitationReported
           /\ final_response.success = (\A i \in DOMAIN results : results[i].success)

C20_Witness ==
    /\ QueryReturned
    /\ LimitationCase
    /\ query = QWeather
    /\ conversation_collection = << >>
    /\ task_plan.execution_order = <<"research", "analysis">>
    /\ "analysis_agent" \in DOMAIN final_response.agent_results
    /\ final_response.synthesized_answer.parts = <<"limitation">>
    /\ final_response.success
(***************************************************************************)
(* The Retrieval and Analytical workers called directly, every query of    *)
(* WorkerQueries with every research data of ResearchData, and TaskResults *)
(* constructed directly.                                                   *)
(***************************************************************************)
\* requests of at most MaxPlanLen words naming the branches of the Analytical worker
AnalysisVocab == {"compare", "analyze", "effectiveness", "calculate", "transformers"}

AnalysisQueries == UNION {[1..n -> AnalysisVocab] : n \in 1..MaxPlanLen}

WorkerQueries == PlanQueries \cup Queries \cup {QRemember, QCosts} \cup AnalysisQueries

EfficiencyHit ==
    [content |-> Note1, occurs |-> Occurs(Note1) \cup {"efficiency"}, embedded |-> {lower(Note1)},
     metadata |-> EmptyDict, distance |-> 50, id |-> MemoryId("conversation", 1)]

ResearchData ==
    {EmptyDict, [query |-> QCompare]}
    \cup {[research_results |-> ResearchResults("None", topics, FALSE, << >>, NoDistance)] :
            topics \in SUBSET knowledge_base}
    \cup {[research_results |-> ResearchResults("None", {}, TRUE, << >>, NoDistance)],
          [research_results |-> ResearchResults("memory", {}, FALSE, << >>, NoDistance)],
          [research_results |-> ResearchResults("memory", {}, FALSE, <<EfficiencyHit>>, 50)]}

InitWorkers ==
    /\ conversation_collection = << >>
    /\ conversation_metadata = EmptyDict
    /\ conversation_metadata_file = EmptyDict
    /\ suspended = << >>
    /\ second_conversation_metadata = EmptyDict
    /\ knowledge_collection = << >>
    /\ knowledge_metadata = EmptyDict
    /\ agent_state_collection = << >>
    /\ groq_client = FALSE
    /\ pc = "idle"
    /\ query \in WorkerQueries
    /\ task_plan = NoPlan
    /\ memory_context = NoContext
    /\ accumulated_data \in ResearchData
    /\ results = << >>
    /\ step = 0
    /\ final_response = NoResponse
    /\ invocations = << >>
    /\ records_before = 0
    /\ repeated = FALSE
    /\ task_result = NoResult

ResearchCall ==
    /\ pc = "idle"
    /\ task_result' = ResearchProcessTask(AgentMessage("tester", "research_agent", query, EmptyDict))
    /\ pc' = "returned"
    /\ UNCHANGED <<groq_client, second_conversation_metadata, suspended, store_vars, query, task_plan, memory_context, accumulated_data,
                   results, step, final_response, invocations, records_before, repeated>>

AnalysisCall ==
    /\ pc = "idle"
    /\ task_result' = AnalysisProcessTask(AgentMessage("tester", "analysis_agent", query,
                                                       [data |-> accumulated_data]))
    /\ pc' = "returned"
    /\ UNCHANGED <<groq_client, second_conversation_metadata, suspended, store_vars, query, task_plan, memory_context, accumulated_data,
                   results, step, final_response, invocations, records_before, repeated>>

\* TaskResult(agent_id=..., success=..., data=..., confidence=..., execution_time=...)
ConstructTaskResult(confidence, execution_time) ==
    /\ pc = "idle"
    /\ task_result' = TaskResult("test_agent", TRUE, EmptyDict, confidence, execution_time, "None")
    /\ pc' = "returned"
    /\ UNCHANGED <<groq_client, second_conversation_metadata, suspended, store_vars, query, task_plan, memory_context, accumulated_data,
                   results, step, final_response, invocations, records_before, repeated>>

NextWorkers ==
    \/ ResearchCall
    \/ AnalysisCall
    \/ \E confidence \in {-10, 80, 150}, execution_time \in {-1, 0, 2} :
          ConstructTaskResult(confidence, execution_time)

SpecWorkers == InitWorkers /\ [][NextWorkers]_vars

(***************************************************************************)
(* C21: a comparison lists in key_differences exactly the topics of        *)
(* research_results whose data mention "efficiency" when there are at      *)
(* least two topics and nothing when there are fewer; without              *)
(* research_results it returns the "no data" stub.                         *)
(***************************************************************************)
Compared ==
    /\ task_result.agent_id = "analysis_agent"
    /\ task_result.success
    /\ task_result.data.analysis.kind \in {"comparison", "no_data"}

Topics == IF "research_results" \in DOMAIN accumulated_data
          THEN ItemKeys(accumulated_data.research_results) ELSE {}

EfficiencyTopics == {topic \in Topics : MentionsEfficiency(accumulated_data.research_results, topic)}

C21_Comparison ==
    Compared =>
        LET analysis == task_result.data.analysis
        IN  /\ "research_results" \notin DOMAIN accumulated_data <=> analysis.kind = "no_data"
            /\ Cardinality(Topics) >= 2 => analysis.key_differences = EfficiencyTopics
            /\ Cardinality(Topics) < 2 => analysis.key_differences = {}

C21_Witness ==
    /\ Compared
    /\ Topics = {"neural_networks", "transformers"}
    /\ task_result.data.analysis.key_differences = {"transformers"}

(***************************************************************************)
(* C22: plan execution skips research exactly when the memory context has  *)
(* a best_distance of at most 0.8 or at least two hits.  Then no research  *)
(* step invokes the Retrieval Worker and each appends a successful         *)
(* research_agent result with execution_time 0 whose research_results are  *)
(* {source "memory", the hits, best_distance, reused true}; otherwise each *)
(* research step invokes the Retrieval Worker exactly once.                *)
(***************************************************************************)
Executing == pc \in {"executing", "synthesized", "returned"}

ResearchStepsDone ==
    Cardinality({i \in 1..Min(step - 1, Len(task_plan.execution_order)) :
                    task_plan.execution_order[i] = "research"})

ResearchInvocations ==
    Cardinality({i \in DOMAIN invocations : invocations[i].agent_id = "research_agent"})

ResearchResultsAt == {i \in DOMAIN results : results[i].agent_id = "research_agent"}

ReuseDecided ==
    \/ memory_context.best_distance # NoDistance /\ memory_context.best_distance <= 80
    \/ Len(memory_context.results) >= 2

Reused(result) ==
    /\ result.success
    /\ result.execution_time = 0
    /\ result.data.research_results.source = "memory"
    /\ result.data.research_results.hits = memory_context.results
    /\ result.data.research_results.best_distance = memory_context.best_distance
    /\ result.data.research_results.reused

C22_ReuseDecision ==
    Executing =>
        /\ Cardinality(ResearchResultsAt) = ResearchStepsDone
        /\ IF ReuseDecided
           THEN /\ ResearchInvocations = 0
                /\ \A i \in ResearchResultsAt : Reused(results[i])
           ELSE /\ ResearchInvocations = ResearchStepsDone
                /\ \A i \in ResearchResultsAt : results[i].data.research_results.source # "memory"

C22_Witness ==
    /\ Executing
    /\ ReuseDecided
    /\ ResearchStepsDone = 1
    /\ ResearchInvocations = 0
    /\ \E i \in ResearchResultsAt : Reused(results[i])

(***************************************************************************)
(* C23: whatever the Memory worker has returned, the normalized memory     *)
(* context has count equal to the number of its results and best_distance  *)
(* equal to the least distance a result carries, none when no result       *)
(* carries one; the results are those of a Search or the records of a      *)
(* Retrieve, and any other or an empty input gives no results, count 0 and *)
(* no best_distance.                                                       *)
(***************************************************************************)
Normalized == pc = "fetched" /\ task_result.agent_id = "memory_agent"

RawContext == IF task_result.success THEN task_result.data ELSE EmptyDict

CarriedDistances ==
    {memory_context.results[i].distance : i \in DOMAIN memory_context.results} \ {NoDistance}

Partition(message) ==
    IF MemoryType(message) = "conversation" THEN conversation_metadata ELSE knowledge_metadata

RetrievedById(message, data) ==
    LET id == message.metadata.memory_id
    IN  IF id \in DOMAIN Partition(message)
        THEN "memory" \in DOMAIN data /\ data.memory = Partition(message)[id]
        ELSE "result" \in DOMAIN data /\ data.result = "not found"

RetrievedRecent(message, data) ==
    /\ "memories" \in DOMAIN data
    /\ Len(data.memories)
          = Min(Get(message.metadata, "limit", 5), Cardinality(DOMAIN Partition(message)))
    /\ data.count = Len(data.memories)
    /\ \A i \in DOMAIN data.memories :
          /\ data.memories[i].id \in DOMAIN Partition(message)
          /\ data.memories[i] = [id |-> data.memories[i].id] @@ Partition(message)[data.memories[i].id]
          /\ \A j \in DOMAIN data.memories :
                i < j => /\ data.memories[i].id # data.memories[j].id
                         /\ data.memories[i].timestamp >= data.memories[j].timestamp
          /\ \A id \in DOMAIN Partition(message) \ {data.memories[j].id : j \in DOMAIN data.memories} :
                Partition(message)[id].timestamp <= data.memories[i].timestamp

Researched == pc = "returned" /\ task_result.agent_id = "research_agent"

Found == task_result.data.research_results.topics

DomainKeywordOccurs == domain_keywords \cap SubstringsIn(lower(query)) # {}

C24_MatchingCascade ==
    Researched =>
        LET direct     == DirectMatches(lower(query))
            fuzzy      == FuzzyMatches(lower(query))
            limitation == task_result.data.research_results.knowledge_limitation
        IN  /\ direct # {} => Found = direct
            /\ direct = {} => Found = fuzzy
            /\ limitation <=> (direct = {} /\ fuzzy = {} /\ ~DomainKeywordOccurs)
            /\ limitation => task_result.data.limitation_detected
            /\ task_result.success <=> (Found # {} \/ limitation)
            /\ (Found = {} /\ DomainKeywordOccurs) => ~task_result.success

C24_Witness ==
    /\ Researched
    /\ DirectMatches(lower(query)) = {}
    /\ Found = {}
    /\ DomainKeywordOccurs
    /\ ~task_result.success

(***************************************************************************)
(* C25: no TaskResult with a confidence outside [0, 1] or a negative       *)
(* execution_time is ever constructed: the construction fails with a       *)
(* validation error.                                                       *)
(***************************************************************************)
C25_ValidatedConstruction ==
    /\ 0 <= task_result.confidence
    /\ task_result.confidence <= 100
    /\ task_result.execution_time >= 0

(***************************************************************************)
(* C28: the execution_order of a rule-based plan starts with               *)
(* memory_retrieval whenever a memory-indicating word occurs in the query, *)
(* is exactly <<research>> when no rule fires, and is never empty.         *)
(***************************************************************************)
Planned == pc = "planned"

WordOccurs(words) == \E word \in words : contains(lower(query), word)

MemoryWordOccurs ==
    \/ WordOccurs({"remember", "earlier", "before", "previous"})
    \/ contains_what_did(lower(query))

NoRuleFires ==
    /\ ~WordOccurs({"find", "search", "what", "types", "information", "about"})
    /\ ~WordOccurs({"compare", "analyze", "evaluate", "effective", "better", "best"})
    /\ ~MemoryWordOccurs

C28_PlanShape ==
    Planned =>
        /\ task_plan.execution_order # << >>
        /\ MemoryWordOccurs => task_plan.execution_order[1] = "memory_retrieval"
        /\ NoRuleFires => task_plan.execution_order = <<"research">>

C28_Witness ==
    /\ Planned
    /\ MemoryWordOccurs
    /\ Len(task_plan.execution_order) = 3
    /\ task_plan.execution_order[1] = "memory_retrieval"

(***************************************************************************)
(* C29: in a rule-based plan agents_needed and execution_order correspond  *)
(* one-to-one, research_agent with research, analysis_agent with analysis  *)
(* and memory_agent with memory_retrieval, neither has a duplicate, and    *)
(* complexity is simple, moderate or complex for one, two or at least      *)
(* three agents; whatever the label, the steps executed are the steps of   *)
(* execution_order.                                                        *)
(***************************************************************************)
RuleBased == task_plan = rule_based_analyze_complexity(query)

NoDuplicate(s) == Cardinality(Range(s)) = Len(s)

ExecutionOver == pc \in {"synthesized", "returned"}

C29_AgentsAndSteps ==
    /\ RuleBased =>
          /\ Len(task_plan.agents_needed) = Len(task_plan.execution_order)
          /\ NoDuplicate(task_plan.agents_needed)
          /\ NoDuplicate(task_plan.execution_order)
          /\ Range(task_plan.execution_order) \subseteq {"research", "analysis", "memory_retrieval"}
          /\ {StepAgent(name) : name \in Range(task_plan.execution_order)}
                = Range(task_plan.agents_needed)
          /\ task_plan.complexity = "simple" <=> Len(task_plan.agents_needed) = 1
          /\ task_plan.complexity = "moderate" <=> Len(task_plan.agents_needed) = 2
          /\ task_plan.complexity = "complex" <=> Len(task_plan.agents_needed) >= 3
    /\ ExecutionOver =>
          [i \in DOMAIN StepResults |-> StepResults[i].agent_id]
              = [i \in DOMAIN KnownSteps |-> StepAgent(KnownSteps[i])]

C29_Witness ==
    /\ RuleBased
    /\ ExecutionOver
    /\ task_plan.complexity = "complex"
    /\ task_plan.agents_needed = <<"research_agent", "analysis_agent", "memory_agent">>
    /\ task_plan.execution_order = <<"memory_retrieval", "research", "analysis">>
    /\ Len(StepResults) = 3

(***************************************************************************)
(* C30: the first TaskResult of every plan execution is the synthetic      *)
(* memory_agent result: success true, consulted true, used equal to the    *)
(* reuse decision, execution_time 0 and confidence 0.6 when the memory     *)
(* context has at least one hit, 0.3 when it has none.                     *)
(***************************************************************************)
C30_SyntheticMemoryResult ==
    Executing =>
        /\ results # << >>
        /\ results[1].agent_id = "memory_agent"
        /\ results[1].success
        /\ results[1].data.consulted
        /\ results[1].data.used <=> ReuseDecided
        /\ results[1].execution_time = 0
        /\ results[1].confidence = IF Len(memory_context.results) >= 1 THEN 60 ELSE 30

C30_Witness ==
    /\ Executing
    /\ Len(memory_context.results) = 1
    /\ memory_context.best_distance = 120
    /\ results[1].agent_id = "memory_agent"
    /\ ~results[1].data.used
    /\ results[1].confidence = 60

(***************************************************************************)
(* MaxCalls calls of process_user_query at a time on one Coordinator       *)
(* without an LLM client, for a query whose fetch and interaction are      *)
(* Stores and a query that stores nothing.                                 *)
(***************************************************************************)
InitConcurrent == Init /\ ~groq_client

NextConcurrent ==
    \/ \E q \in {QStore, QWeather} : AnalyzeQueryComplexity(q)
    \/ GetMemoryContext
    \/ BeginExecute
    \/ ExecuteStep
    \/ SynthesizeResponse
    \/ StoreInteraction
    \/ Suspend
    \/ \E i \in DOMAIN suspended : Resume(i)

SpecConcurrent == InitConcurrent /\ [][NextConcurrent]_vars

(***************************************************************************)
(* C26: no update is lost under concurrency.  In every interleaving of the *)
(* calls no step removes or changes a record of the metadata mirror, in    *)
(* memory or in the file, and a step in which a Store reports success adds *)
(* the record of that Store to both; so when all calls have completed both *)
(* hold every record whose Store reported success.                         *)
(***************************************************************************)
KeptIn(before, after) ==
    \A id \in DOMAIN before : id \in DOMAIN after /\ after[id] = before[id]

StoreSucceeds ==
    /\ suspended' = suspended
    /\ Len(invocations') = Len(invocations) + 1
    /\ invocations'[Len(invocations')].operation = "store"
    /\ invocations'[Len(invocations')].success

RecordAdded ==
    \E id \in DOMAIN conversation_metadata' \ DOMAIN conversation_metadata :
       /\ DOMAIN conversation_metadata' = DOMAIN conversation_metadata \cup {id}
       /\ id \in DOMAIN conversation_metadata_file'
       /\ conversation_metadata_file'[id] = conversation_metadata'[id]

C26_NoLostUpdate ==
    [][/\ KeptIn(conversation_metadata, conversation_metadata')
       /\ KeptIn(conversation_metadata_file, conversation_metadata_file')
       /\ StoreSucceeds => RecordAdded]_vars

\* a call that began on the empty store returns after the Store of another call and its own
C26_Witness ==
    /\ pc = "returned"
    /\ suspended = << >>
    /\ records_before = 0
    /\ Cardinality({i \in DOMAIN invocations :
                       invocations[i].operation = "store" /\ invocations[i].success}) = 2
    /\ Cardinality(DOMAIN conversation_metadata_file) = 2 * MaxRecords
    /\ conversation_metadata_file = conversation_metadata


(***************************************************************************)
(* C31: the confidence of the synthetic research result.                   *)
(***************************************************************************)
SyntheticResults ==
    {i \in DOMAIN results : results[i].agent_id = "research_agent" /\ Reused(results[i])}

\* C31: when research is skipped, the research result built from memory has
\* the confidence recorded for memory hits, 0.6, whenever the memory context
\* has a hit, whatever best_distance is, and 0.5 when it has none.
C31_SyntheticConfidence ==
    Executing =>
        \A i \in SyntheticResults :
            results[i].confidence = IF memory_context.count > 0 THEN 60 ELSE 50

(***************************************************************************)
(* C32: the dispatch of the Analytical worker.                             *)
(***************************************************************************)
Analyzed == pc = "returned" /\ task_result.agent_id = "analysis_agent"

Requested(keyword) == \E i \in DOMAIN query : keyword \in SubstringsOf[Lower[query[i]]]

EarliestBranch ==
    IF Requested("compare") THEN {"comparison", "no_data"}
    ELSE IF Requested("analyze") \/ Requested("effectiveness") THEN {"effectiveness"}
    ELSE IF Requested("calculate") THEN {"calculation"}
    ELSE {"general"}

\* C32: the Analytical worker runs the earliest branch, in the order compare,
\* analyze/effectiveness, calculate, general, whose keyword the request
\* contains, and no other; every branch produces an analysis object, and the
\* result has success true and confidence 0.8.
C32_FirstMatchWins ==
    Analyzed =>
        /\ task_result.success
        /\ task_result.data.analysis.kind \in EarliestBranch
        /\ task_result.confidence = 80

C32_Witness ==
    /\ Analyzed
    /\ Requested("calculate")
    /\ Requested("compare")
    /\ ~Requested("analyze")
    /\ task_result.success
    /\ task_result.data.analysis.kind = "comparison"
    /\ task_result.confidence = 80

(***************************************************************************)
(* C33: the memory-context fetch and the stores.                           *)
(***************************************************************************)
FetchReturns == pc = "planned" /\ pc' = "fetched"

\* C33: the memory-context fetch is read-only: the collections, the metadata
\* mirrors and the metadata file of every partition are the same after
\* _get_memory_context returns as before it was called.
C33_FetchReadOnly == [][FetchReturns => store_vars' = store_vars]_vars

(***************************************************************************)
(* C34: the records one call of process_user_query adds.                   *)
(***************************************************************************)
CallStep == pc \notin Quiet

\* C34: one process_user_query call adds at most one record to the
\* conversation partition, the persisted interaction, and none to the
\* knowledge and agent_state partitions, for every query and every
\* rule-based plan.
C34_OneRecordPerCall ==
    [][CallStep /\ ~groq_client =>
          /\ Len(conversation_collection') <= records_before + 1
          /\ knowledge_collection' = knowledge_collection
          /\ knowledge_metadata' = knowledge_metadata
          /\ agent_state_collection' = agent_state_collection]_vars

(***************************************************************************)
(* C35: the number of results of a query.                                  *)
(***************************************************************************)
\* C35: for every rule-based plan and every memory context, the number of
\* TaskResults of a query, and of its trace entries, is 1 plus the number of
\* steps of execution_order: one synthetic memory entry, then one entry per
\* executed step.
C35_OneResultPerStep ==
    ExecutionOver /\ RuleBased =>
        /\ Len(results) = 1 + Len(task_plan.execution_order)
        /\ Len(final_response.execution_trace) = 1 + Len(task_plan.execution_order)

(***************************************************************************)
(* C36, C37: the hits of a Search.                                         *)
(***************************************************************************)
Limit(message) == Get(message.metadata, "limit", 3)

\* C36: a Search never returns more hits than the requested limit, whichever
\* tier produced them, and count is the length of results.
C36_WithinLimit ==
    [][\A message \in SearchMessages :
          (MemoryTask(message) /\ task_result'.success)
              => /\ task_result'.data.count = Len(task_result'.data.results)
                 /\ task_result'.data.count <= Limit(message)]_vars

Satisfies(hit, message) ==
    /\ MatchTopic(Get(message.metadata, "topic", "None"), hit.metadata)
    /\ MatchKeywords(Get(message.metadata, "keywords", << >>), hit.metadata)

\* C37: every hit a Search returns satisfies the filters of the request,
\* whichever tier produced it: its stored topic is the topic filter, and one
\* of the filter keywords occurs in its stored keywords.
C37_HitsSatisfyFilters ==
    [][\A message \in SearchMessages :
          (MemoryTask(message) /\ task_result'.success)
              => \A i \in DOMAIN task_result'.data.results :
                    Satisfies(task_result'.data.results[i], message)]_vars

(***************************************************************************)
(* C38: the answer of a Store and the record behind it.                    *)
(***************************************************************************)
AnswersStored ==
    /\ task_result'.success
    /\ "memory_id" \in DOMAIN task_result'.data
    /\ task_result'.data.action = "stored"

Persisted(id) ==
    \/ id \in DOMAIN conversation_metadata' \cup DOMAIN knowledge_metadata'
    \/ id \in Ids(conversation_collection') \cup Ids(knowledge_collection')
             \cup Ids(agent_state_collection')

\* C38: whenever the Memory worker answers a Store with success, action
\* "stored" and a memory_id, whatever the memory_type, a record of that id
\* has been persisted and a Retrieve with that id and memory_type returns it
\* and not "not found".
C38_StoredIsRetrievable ==
    [][\A message \in StoreMessages :
          (MemoryTask(message) /\ AnswersStored)
              => /\ Persisted(task_result'.data.memory_id)
                 /\ "memory" \in DOMAIN retrieve_memory(RetrieveById(message, task_result'.data),
                                                        Store')]_vars

(***************************************************************************)
(* C39: reuse and the evidence for it.                                     *)
(***************************************************************************)
ReuseHasEvidence ==
    Executing =>
        /\ results[1].data.used => results[1].data.count >= 1
        /\ \A i \in SyntheticResults : results[i].data.research_results.hits # << >>

\* C39: reuse is engaged only with evidence: used = true implies
\* memory_count >= 1, so the hits of a synthetic research result are never
\* empty and its confidence is never the no-hits value 0.5.
C39_ReuseOnlyWithEvidence ==
    /\ ReuseHasEvidence
    /\ Executing => \A i \in SyntheticResults : results[i].confidence # 50

(***************************************************************************)
(* Two MemoryAgent instances opened over one storage directory: the Chroma *)
(* collections and the metadata files are shared, and each instance has    *)
(* its own conversation_metadata, loaded from the file when it is opened.  *)
(***************************************************************************)
ConversationStores ==
    {message \in MemoryMessages : message.metadata.memory_type = "conversation"}

SecondStore == [Store EXCEPT !.conversation_metadata = second_conversation_metadata]

\* MemoryAgent(storage_path) once more: _load_metadata of the file
OpenSecond ==
    /\ pc \in Quiet
    /\ second_conversation_metadata # conversation_metadata_file
    /\ second_conversation_metadata' = conversation_metadata_file
    /\ UNCHANGED <<groq_client, suspended, store_vars, call_vars, task_result>>

\* process_task of the second instance
SecondMemoryTask(message) ==
    /\ pc \in Quiet
    /\ Len(conversation_collection) < MaxRecords
    /\ \E env \in Envs("store", SecondStore) :
          \E call \in {MemoryProcessTask(message, SecondStore, Now, env)} :
             /\ task_result' = call.result
             /\ conversation_collection' = call.store.conversation_collection
             /\ conversation_metadata_file' = call.store.conversation_metadata_file
             /\ second_conversation_metadata' = call.store.conversation_metadata
    /\ ClearCall
    /\ UNCHANGED <<groq_client, suspended, conversation_metadata, knowledge_collection,
                   knowledge_metadata, agent_state_collection>>

InitInstances == Init /\ ~groq_client

NextInstances ==
    \/ \E message \in ConversationStores : MemoryTask(message)
    \/ \E message \in ConversationStores : SecondMemoryTask(message)
    \/ OpenSecond

SpecInstances == InitInstances /\ [][NextInstances]_vars

(***************************************************************************)
(* C40: the records of two instances in the metadata file.                 *)
(***************************************************************************)
InstanceStores ==
    \E message \in ConversationStores : MemoryTask(message) \/ SecondMemoryTask(message)

\* C40: two MemoryAgent instances on one storage directory do not lose each
\* other's records: a successful conversation Store by either instance
\* leaves in the metadata file every record the file held and adds its own.
C40_NoLostRecord ==
    [][(InstanceStores /\ AnswersStored)
          => /\ KeptIn(conversation_metadata_file, conversation_metadata_file')
             /\ task_result'.data.memory_id \in DOMAIN conversation_metadata_file']_vars
====
